----------------------------- MODULE WorkerPool -----------------------------
(***************************************************************************)
(* The pool of goroutines behind both passes over the network              *)
(* (scanSSHReachability and diagnoseReachableDevices in diagnostics.go).   *)
(* A feeder loops over the devices and hands some of them over an          *)
(* unbuffered channel, workers range over it and put a report on a         *)
(* buffered channel; the feeder closes the first channel, waits for the    *)
(* workers and only then reads the second one.  If the buffer were ever    *)
(* full, the workers would wait for a feeder that waits for them.          *)
(***************************************************************************)
EXTENDS Naturals, Sequences, FiniteSets

CONSTANTS
  Workers,    \* the goroutines of a pool, --parallel of them
  Idle, Left  \* waiting for a job; returned

ASSUME WorkersAssumption ==
  /\ IsFiniteSet(Workers) /\ Workers # {}
  /\ Idle \notin Nat /\ Left \notin Nat /\ Idle # Left

VARIABLES
  next,       \* where the feeder's loop is: the next device
  queued,     \* number of devices handed over
  closed,     \* close(jobs) has been called
  held,       \* per worker: the device it works on, Idle or Left
  results,    \* the results channel: a report and the device's position
  capacity    \* of the results channel

pool == <<next, queued, closed, held, results, capacity>>

\* The results channel has room for one report per worker.
OpenMutant(cap) ==
  /\ next' = 1
  /\ queued' = 0
  /\ closed' = FALSE
  /\ held' = [w \in Workers |-> Idle]
  /\ results' = <<>>
  /\ capacity' = Cardinality(Workers)

\* The channels are made and the goroutines started.
Open(cap) ==
  /\ next' = 1
  /\ queued' = 0
  /\ closed' = FALSE
  /\ held' = [w \in Workers |-> Idle]
  /\ results' = <<>>
  /\ capacity' = cap

\* The feeder's send meets a worker's receive.
Feed(w) ==
  /\ held[w] = Idle
  /\ held' = [held EXCEPT ![w] = next]
  /\ queued' = queued + 1
  /\ next' = next + 1
  /\ UNCHANGED <<closed, results, capacity>>

\* The feeder passes a device over.
Skip ==
  /\ next' = next + 1
  /\ UNCHANGED <<queued, closed, held, results, capacity>>

CloseJobsMutant == ~closed /\ UNCHANGED pool   \* close is forgotten

CloseJobs ==
  /\ ~closed
  /\ closed' = TRUE
  /\ UNCHANGED <<next, queued, held, results, capacity>>

Busy == {w \in Workers : held[w] \notin {Idle, Left}}

\* A worker has made its report and sends it, if the buffer has room.
Deliver(w, report) ==
  /\ w \in Busy
  /\ Len(results) < capacity
  /\ results' = Append(results, [index |-> held[w], report |-> report])
  /\ held' = [held EXCEPT ![w] = Idle]
  /\ UNCHANGED <<next, queued, closed, capacity>>

\* range ends: the jobs channel is closed.
Leave(w) ==
  /\ closed
  /\ held[w] = Idle
  /\ held' = [held EXCEPT ![w] = Left]
  /\ UNCHANGED <<next, queued, closed, results, capacity>>

\* wg.Wait returns.
Drained == \A w \in Workers : held[w] = Left
=============================================================================
