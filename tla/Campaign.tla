------------------------------ MODULE Campaign ------------------------------
(***************************************************************************)
(* A campaign of the scenario laboratory (scenario/src/campaign.rs): cells *)
(* (fixture, control, replicate) run one after another in the plan's       *)
(* order, a checkpoint saved after each, to be resumed after a stop, a     *)
(* pause for the providers, a budget or a crash.  What a cell does is      *)
(* harness::run's; here it ends done, paused or failed, having made some   *)
(* calls.  Pacing between cells and the validation of the plan, which come *)
(* before anything is kept, are not modelled.                              *)
(***************************************************************************)
EXTENDS Naturals

CONSTANTS
    Cells,        \* how many the plan names
    Cap,          \* max_llm_calls, 0 for none
    MaxCalls,     \* what one cell may make
    MaxStarts,    \* bound on the times the campaign is started afresh,
                  \* the providers fail, a cell fails, or a crash comes
    None, Torn   \* no file, and one that does not parse

Status == {"unrun", "done", "paused", "failed"}
Halts == {"none", "complete", "stopped", "paused", "budget"}
State == [cells : [1..Cells -> Status], llm_calls : Nat]

CampaignAssumption ==
    /\ {Cells, Cap, MaxCalls, MaxStarts} \subseteq Nat
    /\ None \notin State /\ Torn \notin State

VARIABLES
    file,         \* campaign-state.json: a State, or None, or Torn
    mem,          \* the running process's State, or None
    key,          \* the cell it is at
    where,        \* "idle", at a "boundary", or "saving"
    halt,         \* why it will return, or did
    stopFile,     \* whether STOP is there
    troubles,     \* crashes, failures, pauses, stops and fresh starts so far
    made,         \* the calls made since the fresh start
    lost          \* the cells among them that failed or were cut off

vars == <<file, mem, key, where, halt, stopFile, troubles, made, lost>>

Fresh == [cells |-> [c \in 1..Cells |-> "unrun"], llm_calls |-> 0]

CampaignTypeOK ==
    /\ file \in State \cup {None, Torn} /\ mem \in State \cup {None}
    /\ key \in 1..(Cells + 1) /\ where \in {"idle", "boundary", "saving"}
    /\ halt \in Halts /\ stopFile \in BOOLEAN /\ troubles \in 0..MaxStarts
    /\ made \in Nat /\ lost \in 0..MaxStarts

Init ==
    /\ file = None /\ mem = None /\ key = 1 /\ where = "idle" /\ halt = "none"
    /\ stopFile = FALSE /\ troubles = 0 /\ made = 0 /\ lost = 0

Trouble == troubles < MaxStarts /\ troubles' = troubles + 1

Begin(state) ==
    /\ mem' = state /\ key' = 1 /\ where' = "boundary" /\ halt' = "none"
    /\ UNCHANGED <<file, stopFile>>

\* A bug to be noticed: the budget is each run's, not the campaign's.
KeptCellsOnly == [file EXCEPT !.llm_calls = 0]

Kept == file

\* `run` with --resume; a torn state is an error and nothing begins.
Resume ==
    /\ where = "idle" /\ file # Torn
    /\ Begin(IF file = None THEN Fresh ELSE Kept)
    /\ UNCHANGED <<troubles, made, lost>>

\* `run` without it.
StartAfresh ==
    /\ where = "idle" /\ file # None /\ Begin(Fresh) /\ Trouble
    /\ made' = 0 /\ lost' = 0

Run(c) == mem.cells[c] = "done"

Skip ==
    /\ where = "boundary" /\ halt = "none" /\ key \in 1..Cells /\ Run(key)
    /\ key' = key + 1
    /\ UNCHANGED <<file, mem, where, halt, stopFile, troubles, made, lost>>

AtCell == where = "boundary" /\ halt = "none" /\ key \in 1..Cells /\ ~Run(key)

OverCap == Cap > 0 /\ mem.llm_calls >= Cap

Halt(why) ==
    /\ halt' = why /\ where' = "saving"
    /\ UNCHANGED <<file, mem, key, stopFile, troubles, made, lost>>

HaltAtBoundary ==
    /\ AtCell
    /\ \/ stopFile /\ Halt("stopped")
       \/ ~stopFile /\ OverCap /\ Halt("budget")

\* One cell, to the save of what came of it.
Ran(status, counted, why) ==
    /\ AtCell /\ ~stopFile /\ ~OverCap
    /\ mem' = [cells |-> [mem.cells EXCEPT ![key] = status],
               llm_calls |-> mem.llm_calls + counted]
    /\ where' = "saving" /\ halt' = why
    /\ UNCHANGED <<file, key, stopFile>>

CellDone == \E n \in 0..MaxCalls :
    Ran("done", n, "none") /\ made' = made + n /\ UNCHANGED <<troubles, lost>>

CellPaused == \E n \in 0..MaxCalls :
    Ran("paused", n, "paused") /\ made' = made + n /\ Trouble /\ UNCHANGED lost

\* The calls of a cell that fails are not counted.
CellFailed == \E n \in 0..MaxCalls :
    Ran("failed", 0, "none") /\ made' = made + n /\ Trouble /\ lost' = lost + 1

Complete ==
    /\ where = "boundary" /\ halt = "none" /\ key = Cells + 1
    /\ Halt("complete")

\* save_state, after a cell and once more on the way out.
Save ==
    /\ where = "saving"
    /\ file' = mem
    /\ IF halt = "none"
       THEN key' = key + 1 /\ where' = "boundary" /\ UNCHANGED mem
       ELSE key' = 1 /\ where' = "idle" /\ mem' = None
    /\ UNCHANGED <<halt, stopFile, troubles, made, lost>>

\* The process ends: in a cell, between them, or with the file truncated and
\* not yet written.
Crash ==
    /\ where # "idle" /\ Trouble
    /\ file' \in IF where = "saving" THEN {file, Torn} ELSE {file}
    /\ \E n \in 0..(IF AtCell /\ ~stopFile /\ ~OverCap THEN MaxCalls ELSE 0) :
          made' = made + n
    /\ lost' = lost + 1
    /\ mem' = None /\ key' = 1 /\ where' = "idle" /\ halt' = "none"
    /\ UNCHANGED stopFile

\* A person puts STOP there, or takes it away.
PutStop ==
    /\ Trouble /\ stopFile' = TRUE
    /\ UNCHANGED <<file, mem, key, where, halt, made, lost>>
TakeStop ==
    /\ stopFile /\ stopFile' = FALSE
    /\ UNCHANGED <<file, mem, key, where, halt, troubles, made, lost>>

Go == Skip \/ HaltAtBoundary \/ CellDone \/ Complete \/ Save

Next ==
    \/ Resume \/ StartAfresh \/ Go \/ CellPaused \/ CellFailed \/ Crash
    \/ PutStop \/ TakeStop

Spec == Init /\ [][Next]_vars

\* The loop goes on, and whoever runs the campaign resumes it until it is
\* complete and takes STOP away; a torn file they replace, if they may still.
FairSpec ==
    /\ Spec /\ WF_vars(Go) /\ WF_vars(TakeStop)
    /\ WF_vars(Resume)

-----------------------------------------------------------------------------
(* Properties.                                                             *)

UsedUp(state) == Cap > 0 /\ state.llm_calls >= Cap
AllDone(state) == \A c \in 1..Cells : state.cells[c] = "done"

\* The budget is the campaign's, however often it halts and is resumed: the
\* calls made since a fresh start pass the cap by less than one cell's calls,
\* and one cell's more for each cell that failed or that a crash cut off.
CapHolds == Cap > 0 => made < Cap + MaxCalls * (1 + lost)

\* A campaign that is resumed as often as it halts gets every cell done (a
\* failed or paused one is tried again), unless its budget is used up or a
\* crash has torn its checkpoint.
ResumedEnds ==
    <>[](\/ file = Torn
         \/ file \in State /\ (AllDone(file) \/ UsedUp(file)))
=============================================================================
