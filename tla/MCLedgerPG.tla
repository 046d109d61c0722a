----------------------------- MODULE MCLedgerPG -----------------------------
(***************************************************************************)
(* Workloads for the model checking of LedgerPG.  Three writers: a desk that*)
(* signs with the treasury's key, and two users.                            *)
(***************************************************************************)
EXTENDS LedgerPG, TLC

CONSTANTS kt, k1, k2, k3, desk, u1, u2

MCProcs == {desk, u1, u2}
MCKeys == {kt, k1, k2, k3}
MCAmounts == {1, SupplyCap}

genesis == [type |-> "genesis", signer |-> kt, to |-> kt, amount |-> SupplyCap]
transfer(k, to, a, n) == [type |-> "transfer", signer |-> k, from |-> k, to |-> to,
                          amount |-> a, nonce |-> n]
rotate(old, new, n) == [type |-> "rotate_key", signer |-> old, oldKey |-> old,
                        newKey |-> new, nonce |-> n]
reclaim(from, a, n) == [type |-> "reclaim_invalid", signer |-> kt, admin |-> kt,
                        from |-> from, amount |-> a, nonce |-> n]
register(i, k) == [type |-> "register", id |-> i, key |-> k]

MCIds == {-1, 0, 1, 2, 3}

\* The treasury funds users 1 and 2, who register, twice at once (a double click, or
\* two devices with a key each), and send on; each may want a key that the other
\* has or rotates to.  User 3 only receives.
Traffic == desk :> {genesis, transfer(kt, 1, 1, 1), transfer(kt, 2, 1, 2),
                    reclaim(-1, 1, 2)}
        @@ u1 :> {register(1, k1), register(1, k2), transfer(k1, 2, 1, 1), rotate(k1, k3, 1)}
        @@ u2 :> {register(2, k2), register(1, k3), transfer(k2, 1, 1, 1), transfer(k1, 1, 1, 1),
               transfer(k2, 3, 1, 1)}

\* Less of it: user 1 may want the key that user 2 sends points with.
Waits == desk :> {genesis, transfer(kt, 2, 1, 1)}
      @@ u1 :> {register(1, k1), register(1, k2)}
      @@ u2 :> {register(2, k2), transfer(k2, 1, 1, 1)}

\* Two goroutines register user 1 while the treasury funds it; user 2 only receives.
Races == desk :> {genesis, transfer(kt, 1, 1, 1), transfer(kt, 1, 1, 2), transfer(kt, 2, 1, 2)}
      @@ u1 :> {register(1, k1), transfer(k1, 2, 1, 1), transfer(k1, 1, 1, 1)}
      @@ u2 :> {register(1, k1), register(1, k3), transfer(k1, 2, 1, 2)}
=============================================================================
