------------------------------- MODULE Logger -------------------------------
(***************************************************************************)
(* common/logging.hpp: a queue of log elements, filled by the thread that  *)
(* logs and emptied into the file by a thread of the logger's own.         *)
(*                                                                         *)
(* The elements of a line are pushed in one step: the writer takes them    *)
(* one at a time, and nobody else looks at the queue while the line is     *)
(* being pushed.  The queue is a sequence, which LFQueue implements while  *)
(* it is not overrun.                                                      *)
(***************************************************************************)
EXTENDS LogFormat

CONSTANT Loggers

VARIABLES
    queue_, file_, running_,
    writer          \* where logger_thread_ is in flushQueue()

Init ==
    /\ queue_ = [l \in Loggers |-> <<>>]
    /\ file_ = [l \in Loggers |-> <<>>]
    /\ running_ = [l \in Loggers |-> TRUE]
    /\ writer = [l \in Loggers |-> "none"]

PushValues(l, elements) == queue_' = [queue_ EXCEPT ![l] = @ \o elements]
----------------------------------------------------------------------------
(* The constructor, and the writer's flushQueue().                         *)

Open(l) ==
    /\ writer' = [writer EXCEPT ![l] = "created"]
    /\ UNCHANGED <<queue_, file_, running_>>

\* file_ << element; updateReadIndex().
WriteNext(l) ==
    /\ writer[l] = "draining"
    /\ queue_[l] # <<>>
    /\ file_' = [file_ EXCEPT ![l] = Append(@, Head(queue_[l]))]
    /\ queue_' = [queue_ EXCEPT ![l] = Tail(@)]
    /\ UNCHANGED <<running_, writer>>

\* Nothing left: file_.flush(), 10 ms of sleep, and back to while (running_).
Flush(l) ==
    /\ writer[l] = "draining"
    /\ queue_[l] = <<>>
    /\ writer' = [writer EXCEPT ![l] = "looking"]
    /\ UNCHANGED <<queue_, file_, running_>>

\* The thread begins, or looks at running_.
LookAtRunning(l) ==
    /\ writer[l] \in {"created", "looking"}
    /\ writer' = [writer EXCEPT ![l] = IF running_[l] THEN "draining" ELSE "ended"]
    /\ UNCHANGED <<queue_, file_, running_>>

FlushQueue(l) == WriteNext(l) \/ Flush(l) \/ LookAtRunning(l)
----------------------------------------------------------------------------
(* The destructor: wait for the queue to be empty, clear running_, join.   *)

QueueEmpty(l) == queue_[l] = <<>>

ClearRunning(l) ==
    /\ running_' = [running_ EXCEPT ![l] = FALSE]
    /\ UNCHANGED <<queue_, file_, writer>>
=============================================================================
