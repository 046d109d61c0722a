----------------------------- MODULE MCSessions -----------------------------
(***************************************************************************)
(* Two browsers and two logins, both of one browser or one of each; two     *)
(* replies under way at once, which pass each other; two tabs of the admin  *)
(* page and one restart.  Lifetimes of one second, in a clock that outlives *)
(* a login and a session.                                                   *)
(***************************************************************************)
EXTENDS Sessions, TLC

AnyNames == Permutations(Browsers) \cup Permutations(Users) \cup Permutations(Tabs)
            \cup Permutations(Connections)
=============================================================================
