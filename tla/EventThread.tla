----------------------------- MODULE EventThread -----------------------------
(***************************************************************************)
(* The thread that several stub plugins run in their Device Agent: started *)
(* in the constructor, it generates events until the destructor stops it,  *)
(* and sleeps in between on a condition variable.  The classes have the    *)
(* same loop and the same stopEventThread(); what they generate, and when, *)
(* is in the modules that extend this one.                                 *)
(*                                                                         *)
(* Every read of the loop is a step, since the flags are written by other  *)
(* threads between them.                                                   *)
(***************************************************************************)
EXTENDS ConsumingDeviceAgent

CONSTANT thread     (* m_eventThread. *)

ASSUME EventThreadAssumption == thread \in Threads

VARIABLES
  loop,        (* Where eventThreadLoop() is.                              *)
  terminated,  (* m_terminated.                                            *)
  eventMutex,  (* m_eventThreadMutex: who holds it.                        *)
  life         (* The agent: "alive", being "joined", or "destroyed".      *)

threadVars == <<loop, terminated, eventMutex, life>>

ThreadTypeOK ==
  /\ BaseTypeOK
  /\ loop \in {"check", "generate", "push", "sleep", "locked", "wait",
               "waiting", "woken", "ended"}
  /\ terminated \in BOOLEAN
  /\ eventMutex \in {thread, Server, Nobody}
  /\ life \in {"alive", "joined", "destroyed"}

ThreadInit ==
  /\ BaseInit
  /\ loop = "check" /\ terminated = FALSE /\ eventMutex = Nobody
  /\ life = "alive"

----------------------------------------------------------------------------
(* eventThreadLoop(). *)

(* while (!m_terminated)                                                   *)
CheckTerminated ==
  /\ loop = "check"
  /\ loop' = IF terminated THEN "ended" ELSE "generate"
  /\ UNCHANGED <<baseVars, terminated, eventMutex, life>>

(* std::unique_lock<std::mutex> lock(m_eventThreadMutex);                  *)
LockToSleep ==
  /\ loop = "sleep" /\ eventMutex = Nobody
  /\ loop' = "locked" /\ eventMutex' = thread
  /\ UNCHANGED <<baseVars, terminated, life>>

(* if (m_terminated) break;                                                *)
BreakIfTerminated ==
  /\ loop = "locked"
  /\ IF terminated THEN loop' = "ended" /\ eventMutex' = Nobody
                   ELSE loop' = "wait" /\ UNCHANGED eventMutex
  /\ UNCHANGED <<baseVars, terminated, life>>

(* wait_for() releases the mutex and begins to wait.                       *)
WaitFor ==
  /\ loop = "wait"
  /\ loop' = "waiting" /\ eventMutex' = Nobody
  /\ UNCHANGED <<baseVars, terminated, life>>

(* The period is over, or the wake-up is spurious.  `NeverTimeOut` is a    *)
(* mutant: wait() instead of wait_for().                                   *)
NeverTimeOut ==
  /\ loop = "waiting" /\ FALSE
  /\ loop' = "woken"
  /\ UNCHANGED <<baseVars, terminated, eventMutex, life>>

TimeOut ==
  /\ loop = "waiting"
  /\ loop' = "woken"
  /\ UNCHANGED <<baseVars, terminated, eventMutex, life>>

(* wait_for() returns with the mutex, which is released at once.           *)
Resume ==
  /\ loop = "woken" /\ eventMutex = Nobody
  /\ loop' = "check"
  /\ UNCHANGED <<baseVars, terminated, eventMutex, life>>

SleepStep ==
  CheckTerminated \/ LockToSleep \/ BreakIfTerminated \/ WaitFor \/ Resume

(* m_eventThreadCondition.notify_all()                                     *)
NotifyAll == loop' = IF loop = "waiting" THEN "woken" ELSE loop

----------------------------------------------------------------------------
(* stopEventThread(), which the destructor calls. *)

(* The flag and the notification, under the mutex; a mutant forgets it.    *)
StopUnlocked ==
  /\ life = "alive" /\ server = "idle"
  /\ terminated' = TRUE /\ NotifyAll
  /\ life' = "joined"
  /\ UNCHANGED <<baseVars, eventMutex>>

StopEventThread ==
  /\ life = "alive" /\ server = "idle" /\ eventMutex = Nobody
  /\ terminated' = TRUE /\ NotifyAll
  /\ life' = "joined"
  /\ UNCHANGED <<baseVars, eventMutex>>

(* m_eventThread->join(), and the members are destroyed.  A mutant,        *)
(* `Detach`, does not wait.                                                *)
Detach ==
  /\ life = "joined"
  /\ life' = "destroyed"
  /\ UNCHANGED <<baseVars, loop, terminated, eventMutex>>

Join ==
  /\ life = "joined" /\ loop = "ended"
  /\ life' = "destroyed"
  /\ UNCHANGED <<baseVars, loop, terminated, eventMutex>>

----------------------------------------------------------------------------
(* Properties of every plugin with such a thread. *)

(* Nothing of the agent is used after its destruction: the thread has left *)
(* its loop, with both mutexes free and no call of the handler in progress.*)
NoUseAfterDestruction ==
  life = "destroyed" =>
    /\ loop = "ended"
    /\ mutex = Nobody /\ eventMutex = Nobody
    /\ calling[thread] = NoHandler

(* "or the thread is ordered to terminate (hence condition variable        *)
(* instead of sleep())": the destructor does not depend on the period of   *)
(* the events.  The fairness of the modules that check it does not include *)
(* TimeOut, so that a lost notification would be a counterexample.         *)
StopIsPrompt == (life = "joined") ~> (life = "destroyed")

=============================================================================
