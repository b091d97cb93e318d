------------------------------- MODULE JobLife -------------------------------
(***************************************************************************)
(* What the specialist_jobs table promises a reader about every job: it is *)
(* queued once, runs, ends as succeeded or failed, comes back only from    *)
(* failed, and nothing changes a job that succeeded except the deletion of *)
(* its document unit.                                                      *)
(***************************************************************************)
CONSTANT Jobs
VARIABLE st   \* job -> its life

States == {"new", "queued", "processing", "succeeded", "failed", "gone"}

Init == st = [j \in Jobs |-> "new"]

Write(S, s) == st' = [j \in Jobs |-> IF j \in S THEN s ELSE st[j]]

Create(S) == (\A j \in S : st[j] = "new") /\ Write(S, "queued")
Start(j) == st[j] \in {"queued", "failed"} /\ Write({j}, "processing")
Succeed(j) == st[j] = "processing" /\ Write({j}, "succeeded")
Fail(j) == st[j] = "processing" /\ Write({j}, "failed")
Remove(S) == (\A j \in S : st[j] # "new") /\ Write(S, "gone")

Next ==
  \/ \E S \in SUBSET Jobs : Create(S) \/ Remove(S)
  \/ \E j \in Jobs : Start(j) \/ Succeed(j) \/ Fail(j)

Spec == Init /\ [][Next]_st
=============================================================================
