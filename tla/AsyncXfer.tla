----------------------------- MODULE AsyncXfer -----------------------------
(***************************************************************************)
(* What an asynchronous transfer promises its caller: once the call has    *)
(* returned 0, its done function is called, exactly once.                  *)
(***************************************************************************)
EXTENDS Naturals

CONSTANT Ids       (* the done functions                                    *)

VARIABLE owed      (* calls of each done function still due                 *)

AsyncInit == owed = [i \in Ids |-> 0]

Accepted(i) == owed[i] = 0 /\ owed' = [owed EXCEPT ![i] = 1]

Completed(i) == owed[i] = 1 /\ owed' = [owed EXCEPT ![i] = 0]

AsyncNext == \E i \in Ids : Accepted(i) \/ Completed(i)

AsyncSafety == AsyncInit /\ [][AsyncNext]_owed

AsyncSpec == AsyncSafety /\ \A i \in Ids : WF_owed(Completed(i))
=============================================================================
