---------------------------- MODULE MCWorkerJobs ----------------------------
(* Two workers and one leaf job: every stage has two claimants to race for *)
(* it, and the transition has generations that share its id. The workers   *)
(* are alike, so it is enough that the faults of a behaviour with one      *)
(* fault happen to the first.                                              *)
EXTENDS WorkerJobs

CONSTANTS w1, w2

MCWorkers == {w1, w2}
MCLevels  == << << <<"leaf">> >>, << <<"leaf">> >> >>
MCSlowJobs == {"root"}
MCUnreliable == {w1}
MCContents == {"same"}
=============================================================================
