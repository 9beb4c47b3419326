--------------------------------- MODULE Tzip ---------------------------------
(***************************************************************************)
(* Mounting of package archives (tzip_interface.cc): deviced, a service    *)
(* outside this repository, handles the messages of all requests in the    *)
(* order they were sent.  Mount and Unmount have no answer; MountZip()     *)
(* asks with IsMounted, for a limited number of times, what came of it.    *)
(***************************************************************************)
EXTENDS Integers, Sequences

CONSTANTS
  Points,      \* the mount points
  MaxPolls,    \* kTzipMountMaximumRetryCount
  FaultBudget  \* how many failures and crashes the environment may cause

ASSUME TzipAssumption == MaxPolls \in Nat \ {0} /\ FaultBudget \in Nat

VARIABLES
  queue,    \* messages deviced has not handled yet
  mounts,   \* the version whose content is seen at each mount point, 0 if none
  dirs,     \* mount points whose directory exists
  faults,   \* history: the kinds of the failures so far
  budget    \* how many more may happen

tzipVars == <<queue, mounts, dirs, faults, budget>>

NoFault == UNCHANGED <<faults, budget>>
Fault(kind) == budget > 0 /\ budget' = budget - 1 /\ faults' = faults \cup {kind}

Mounted(p) == mounts[p] # 0

-------------------------------------------------------------------------------
(* The client *)

SendMessage(m) == queue' = Append(queue, m)

\* MountZip(): a directory at the mount point is removed first; when something is
\* mounted there remove() throws.
CanMountZip(p) == ~Mounted(p)
MountZip(p, file) ==
  /\ SendMessage([op |-> "Mount", at |-> p, file |-> file])
  /\ dirs' = dirs \ {p} /\ UNCHANGED mounts

\* UnmountZip()
UnmountZip(p) ==
  /\ SendMessage([op |-> "Unmount", at |-> p, file |-> <<"none", 0>>])
  /\ UNCHANGED <<mounts, dirs>>

\* IsMounted(): deviced answers after it has handled what was sent before; an
\* answer that does not come in time counts as no.
AnswersYes(p) == queue = <<>> /\ Mounted(p)

-------------------------------------------------------------------------------
(* deviced; content is what is in the file when it is mounted. *)

Deviced(content) ==
  /\ queue # <<>> /\ queue' = Tail(queue)
  /\ LET m == Head(queue)
     IN \/ /\ m.op = "Mount" /\ ~Mounted(m.at) /\ content > 0 /\ NoFault
           /\ mounts' = [mounts EXCEPT ![m.at] = content]
           /\ dirs' = dirs \cup {m.at}
        \/ /\ m.op = "Mount" /\ (Mounted(m.at) \/ content <= 0) /\ NoFault
           /\ UNCHANGED <<mounts, dirs>>
        \/ /\ m.op = "Unmount" /\ NoFault
           /\ mounts' = [mounts EXCEPT ![m.at] = 0] /\ UNCHANGED dirs
        \/ Fault("lost") /\ UNCHANGED <<mounts, dirs>>
===============================================================================
