---------------------------- MODULE AuthSession ----------------------------
(***************************************************************************)
(* What a login session promises.  A login opens a session; the refresh    *)
(* tokens of one family carry it on, one after the other; a logout, a      *)
(* reused token, a suspension, a deletion or the end of the lifetime ends  *)
(* it.  A session that has ended is never opened again.                    *)
(***************************************************************************)
CONSTANT Families   \* the names a login may give its session

VARIABLE session    \* [Families -> {"unused", "open", "ended"}]

TypeOK == session \in [Families -> {"unused", "open", "ended"}]

Init == session = [f \in Families |-> "unused"]

Open(f) ==
  /\ session[f] = "unused"
  /\ session' = [session EXCEPT ![f] = "open"]

End(F) ==
  /\ \A f \in F : session[f] = "open"
  /\ session' = [f \in Families |-> IF f \in F THEN "ended" ELSE session[f]]

Next == (\E f \in Families : Open(f)) \/ (\E F \in SUBSET Families : End(F))

Spec == Init /\ [][Next]_session
=============================================================================
