------------------------------ MODULE Consult ------------------------------
(***************************************************************************)
(* The seam to the model (src/crates/llm/src/lib.rs): every consult of one *)
(* process stands in a lane, human or background, takes the slot, leaves   *)
(* its prompt in llm/prompt.txt, runs the adapter and reads                *)
(* llm/response.json.  The slot is a lock in the memory of one process;    *)
(* the two files belong to every process of the machine (the daemon,       *)
(* `familiar consult`, the factory loop) and to every adapter still alive: *)
(* killing the adapter kills the shell, not the python it started          *)
(* (src/llm/call_llm.sh:71).  A call here is one consult, its words its    *)
(* own name.                                                               *)
(***************************************************************************)
EXTENDS Naturals

CONSTANTS
    Calls,        \* the consults that may be made
    Humans,       \* those a human waits on
    Processes,    \* the processes that consult in one data directory
    None          \* no words

ConsultAssumption == None \notin Calls /\ Humans \subseteq Calls /\ Processes # {}

Outcomes == {"none", "response", "refused", "limited", "yielded"}

VARIABLES
    call,         \* what each consult is doing
    slot,         \* by process, whether its lane is taken
    prompt,       \* whose words prompt.txt holds
    response,     \* whose words response.json answers
    adapter       \* the adapter each consult started

vars == <<call, slot, prompt, response, adapter>>

Unmade == [at |-> "unmade", process |-> CHOOSE p \in Processes : TRUE,
           outcome |-> "none", got |-> None]
NoAdapter == [at |-> "none", read |-> None, shell |-> "none"]

ConsultTypeOK ==
    /\ call \in [Calls -> [at: {"unmade", "waiting", "holding", "running", "over"},
                           process: Processes, outcome: Outcomes, got: Calls \cup {None}]]
    /\ slot \in [Processes -> BOOLEAN]
    /\ prompt \in Calls \cup {None} /\ response \in Calls \cup {None}
    /\ adapter \in [Calls -> [at: {"none", "starting", "thinking", "over"},
                              read: Calls \cup {None},
                              shell: {"none", "alive", "killed", "ok", "limited", "failed"}]]

ConsultInit ==
    /\ call = [c \in Calls |-> Unmade]
    /\ slot = [p \in Processes |-> FALSE]
    /\ prompt = None /\ response = None
    /\ adapter = [c \in Calls |-> NoAdapter]

HumansWaiting(p) ==
    {c \in Humans : call[c].at = "waiting" /\ call[c].process = p}

\* A bug to be noticed: a human who waits takes a slot that is taken.
MayTakeBusy(c) == c \notin Humans => ~slot[call[c].process]

(***************************************************************************)
(* The lane.  A human takes the slot once it is free; a background call    *)
(* also lets every waiting human of its process by.                        *)
(***************************************************************************)
MayTake(c) ==
    /\ ~slot[call[c].process]
    /\ c \notin Humans => HumansWaiting(call[c].process) = {}

Ask(c, p) ==
    /\ call[c].at = "unmade"
    /\ call' = [call EXCEPT ![c] = [@ EXCEPT !.at = "waiting", !.process = p]]
    /\ UNCHANGED <<slot, prompt, response, adapter>>

Acquire(c) ==
    /\ call[c].at = "waiting" /\ MayTake(c)
    /\ call' = [call EXCEPT ![c].at = "holding"]
    /\ slot' = [slot EXCEPT ![call[c].process] = TRUE]
    /\ UNCHANGED <<prompt, response, adapter>>

\* A bug to be noticed: the guard is kept where the call steps aside.
EndsHolding(c, outcome, got) ==
    /\ call' = [call EXCEPT ![c] = [@ EXCEPT !.at = "over", !.outcome = outcome, !.got = got]]
    /\ slot' = IF outcome = "yielded" THEN slot ELSE [slot EXCEPT ![call[c].process] = FALSE]

\* The guard is dropped on every way out of consult_in.
Ends(c, outcome, got) ==
    /\ call' = [call EXCEPT ![c] = [@ EXCEPT !.at = "over", !.outcome = outcome, !.got = got]]
    /\ slot' = [slot EXCEPT ![call[c].process] = FALSE]

\* The boundary refuses, or there is no adapter: nothing was written.
Refuse(c) ==
    /\ call[c].at = "holding"
    /\ Ends(c, "refused", None)
    /\ UNCHANGED <<prompt, response, adapter>>

Spawn(c) ==
    /\ call[c].at = "holding"
    /\ call' = [call EXCEPT ![c].at = "running"]
    /\ prompt' = c
    /\ adapter' = [adapter EXCEPT ![c] = [@ EXCEPT !.at = "starting", !.shell = "alive"]]
    /\ UNCHANGED <<slot, response>>

(***************************************************************************)
(* The adapter reads the prompt once it runs, and answers in its own time, *)
(* whether or not its shell still lives.                                   *)
(***************************************************************************)
Reads(c) ==
    /\ adapter[c].at = "starting"
    /\ adapter' = [adapter EXCEPT ![c] = [@ EXCEPT !.at = "thinking", !.read = prompt]]
    /\ UNCHANGED <<call, slot, prompt, response>>

ShellAfter(c, code) == IF adapter[c].shell = "alive" THEN code ELSE adapter[c].shell

Answers(c) ==
    /\ adapter[c].at = "thinking"
    /\ response' = adapter[c].read
    /\ adapter' = [adapter EXCEPT ![c] = [@ EXCEPT !.at = "over", !.shell = ShellAfter(c, "ok")]]
    /\ UNCHANGED <<call, slot, prompt>>

Fails(c, code) ==
    /\ adapter[c].at = "thinking"
    /\ adapter' = [adapter EXCEPT ![c] = [@ EXCEPT !.at = "over", !.shell = ShellAfter(c, code)]]
    /\ UNCHANGED <<call, slot, prompt, response>>

(***************************************************************************)
(* The wait: every 100ms the caller looks whether the shell has exited,    *)
(* whether its deadline is past and, in the background, whether a human    *)
(* waits.                                                                  *)
(***************************************************************************)
Return(c) ==
    /\ call[c].at = "running"
    /\ \/ adapter[c].shell = "ok" /\ Ends(c, "response", response)
       \/ adapter[c].shell = "limited" /\ Ends(c, "limited", None)
       \/ adapter[c].shell = "failed" /\ Ends(c, "refused", None)
    /\ UNCHANGED <<prompt, response, adapter>>

\* The shell is killed.  A python that had not started never does.
Kills(c) ==
    \/ adapter' = [adapter EXCEPT ![c].shell = "killed"]
    \/ /\ adapter[c].at = "starting"
       /\ adapter' = [adapter EXCEPT ![c] = [@ EXCEPT !.at = "over", !.shell = "killed"]]

Deadline(c) ==
    /\ call[c].at = "running" /\ adapter[c].shell = "alive"
    /\ Kills(c) /\ Ends(c, "refused", None)
    /\ UNCHANGED <<prompt, response>>

StepAside(c) ==
    /\ call[c].at = "running" /\ adapter[c].shell = "alive"
    /\ c \notin Humans /\ HumansWaiting(call[c].process) # {}
    /\ Kills(c) /\ Ends(c, "yielded", None)
    /\ UNCHANGED <<prompt, response>>

Proceed(c) == Acquire(c) \/ Refuse(c) \/ Spawn(c) \/ Return(c) \/ Deadline(c) \/ StepAside(c)

ConsultNext ==
    \E c \in Calls :
        \/ \E p \in Processes : Ask(c, p)
        \/ Acquire(c) \/ Refuse(c) \/ Spawn(c)
        \/ Reads(c) \/ Answers(c) \/ Fails(c, "limited") \/ Fails(c, "failed")
        \/ Return(c) \/ Deadline(c) \/ StepAside(c)

(***************************************************************************)
(* Each caller is a running thread and its deadline a clock: no fairness   *)
(* is asked of the adapter.                                                *)
(***************************************************************************)
ConsultFairness == \A c \in Calls : WF_vars(Proceed(c))
ConsultSpec == ConsultInit /\ [][ConsultNext]_vars /\ ConsultFairness

(***************************************************************************)
(* What the seam promises.                                                 *)
(***************************************************************************)
Holders(p) == {c \in Calls : call[c].process = p /\ call[c].at \in {"holding", "running"}}
Strayed(c) == adapter[c].shell = "killed"

\* One consult of a process is under way at a time, and the slot is taken
\* exactly while it is: no way out of consult_in leaves the lane shut, none
\* opens it under another's consult (llm/src/lib.rs:66-131).
SlotIsHeld ==
    \A p \in Processes :
        /\ \A c, d \in Holders(p) : c = d
        /\ slot[p] <=> Holders(p) # {}

\* Words cross only where the lane does not reach: a caller that was handed
\* another's answer had another process beside it, or a killed adapter's
\* python behind it (llm/src/lib.rs:251-267, call_llm.sh:71).
CrossedOnlyByStrays ==
    \A c \in Calls :
        (call[c].outcome = "response" /\ call[c].got # c)
            => \E d \in Calls \ {c} :
                  Strayed(d) \/ (call[d].at # "unmade" /\ call[d].process # call[c].process)

\* "each caller got back its own words" (llm/src/lib.rs:362); "running this
\* alongside the live daemon is safe" (factory-run/src/main.rs:7-8).
OwnWords == \A c \in Calls : call[c].outcome = "response" => call[c].got = c

\* A hung adapter never hangs the caller, and a waiting human never hangs the
\* background for good: whoever asks is told something
\* (each call is made once, so none may stay pending)
\* (llm/src/lib.rs:108-131, 246-267).
Pending == {c \in Calls : call[c].at \notin {"unmade", "over"}}
EveryCallReturns == []<>(Pending = {})

=============================================================================
