------------------------------- MODULE RemoteHost -------------------------------
(***************************************************************************)
(* Commands on an EC2 instance (chia/aws/host.py, EphemeralEC2Host; run of *)
(* chia/cluster/ssh.py).  A command ends in one of three ways.  "ok": it   *)
(* ran.  "lost": ssh itself failed, which gives exit code 255 and no       *)
(* output, and raises only with check=True.  "late": it timed out, which   *)
(* always raises.                                                          *)
(***************************************************************************)
EXTENDS Naturals

CONSTANT MaxFaults   \* bound: failures of any kind

ASSUME MaxFaultsAssumption == MaxFaults \in Nat

VARIABLE faults      \* the number of failures so far

\* "ending": AWS has accepted the termination.
Hosts == {"none", "up", "ending", "gone"}

\* How a command may end.
Outcomes(host) ==
  IF host # "up" THEN {"lost", "late"}
  ELSE IF faults < MaxFaults THEN {"ok", "lost", "late"} ELSE {"ok"}

\* A command has ended in o.
Counted(host, o) ==
  faults' = IF o # "ok" /\ host = "up" THEN faults + 1 ELSE faults

\* Something else fails: AWS refuses a request, or a machine dies.
Failure == faults < MaxFaults /\ faults' = faults + 1

\* The state of an instance after terminate_instances was accepted.
Terminating(host) == IF host = "up" THEN "ending" ELSE host

=============================================================================
