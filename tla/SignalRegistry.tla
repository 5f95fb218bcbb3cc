---------------------------- MODULE SignalRegistry ----------------------------
(***************************************************************************)
(* positions.json and the commands that share it: `decide --execute`,      *)
(* which manages what is tracked and places one signal, and `manage        *)
(* --watch --execute`, which only manages and runs beside it.  The file is *)
(* read, changed and written back without a lock, and written in place: it *)
(* is empty from the open to the flush, and of two texts written at once   *)
(* the end of the longer can stay behind the shorter.  A signal is tracked *)
(* so long as the broker holds an order or a position under its magic.     *)
(***************************************************************************)
EXTENDS FiniteSets, Naturals

CONSTANTS Signals,
          Deciders, Watchers,  \* the processes, by command
          MaxFaults            \* bound: kills, failed calls

ASSUME ProcessesAssumption == Deciders \cap Watchers = {}
ASSUME FaultsAssumption == MaxFaults \in Nat

VARIABLES file,      \* positions.json: the keys last written to it and, since then, its
                     \* text: "whole", "empty" (opened to write) or "garbage"
          held,      \* per signal: what MT5 holds under its magic
          pc, sig,   \* per process: where it is, and the signal it decides
          tracked,   \* per process: the signals it replayed this cycle
          alive,     \* per process: the magics it has seen alive
          loaded,    \* per process: the entries a read-modify-write holds
          excused,   \* history: the signals a fault may have cost
          raced,     \* history: those that another command's read and write may have cost
          faults

procs == <<pc, sig, tracked, alive, loaded>>
registryVars == <<file, held, pc, sig, tracked, alive, loaded, excused, raced, faults>>

Processes == Deciders \cup Watchers
Live(s)   == held[s] \in {"orders", "position"}
Running(p) == pc[p] # "off"
Goto(p, l) == pc' = [pc EXCEPT ![p] = l]

Fault == faults < MaxFaults /\ faults' = faults + 1
Fine  == UNCHANGED <<faults, excused, raced>>

\* SignalRegistry.load: an unreadable file is an empty one.
Load == IF file.text = "whole" THEN file.keys ELSE {}

-----------------------------------------------------------------------------
(* The broker                                                            *)

FillOrders(s) ==
    /\ held[s] = "orders"
    /\ held' = [held EXCEPT ![s] = "position"]
    /\ UNCHANGED <<file, procs, excused, raced, faults>>

\* A stop, a target, an expiry: with or without the executor.
Finish(s) ==
    /\ Live(s)
    /\ held' = [held EXCEPT ![s] = "gone"]
    /\ UNCHANGED <<file, procs, excused, raced, faults>>

-----------------------------------------------------------------------------
(* A command from its start to its decision                                *)

StartDecide(p, s) ==
    /\ p \in Deciders /\ ~Running(p)
    /\ Goto(p, "read") /\ sig' = [sig EXCEPT ![p] = s]
    /\ UNCHANGED <<file, held, tracked, alive, loaded, excused, raced, faults>>

StartWatch(p) ==
    /\ p \in Watchers /\ ~Running(p)
    /\ Goto(p, "read")
    /\ UNCHANGED <<file, held, sig, tracked, alive, loaded, excused, raced, faults>>

\* cmd_decide goes on with nothing tracked when the file cannot be parsed; a manage pass
\* ends the watch, with an error, and without one when there is nothing to manage.
ReadRegistry(p) ==
    /\ pc[p] = "read"
    /\ tracked' = [tracked EXCEPT ![p] = Load]
    /\ alive' = [alive EXCEPT ![p] = {}]
    /\ Goto(p, IF p \in Watchers /\ Load = {} THEN "off" ELSE "sanity")
    /\ UNCHANGED <<file, held, sig, loaded>> /\ Fine

\* sanity_checks (and, in a manage pass, the account read before it).
SanityChecks(p) ==
    /\ pc[p] = "sanity"
    /\ \/ Goto(p, IF p \in Deciders THEN "place" ELSE "orders") /\ Fine
       \/ Fault /\ Goto(p, "off") /\ UNCHANGED <<excused, raced>>
    /\ UNCHANGED <<file, held, sig, tracked, alive, loaded>>

\* Tracked signals are managed, never placed, and place_signal refuses a magic MT5 knows.
Placeable(p, s) == s \notin tracked[p] /\ held[s] = "none"

\* Whether decide follows the signal, and whether the broker takes it, is open.
PlaceSignal(p) ==
    /\ pc[p] = "place"
    /\ \/ /\ Placeable(p, sig[p])
          /\ held' = [held EXCEPT ![sig[p]] = "orders"]
          /\ Goto(p, "add_load")
       \/ Goto(p, "orders") /\ UNCHANGED held
    /\ UNCHANGED <<file, sig, tracked, alive, loaded>> /\ Fine

-----------------------------------------------------------------------------
(* SignalRegistry.add and prune                                            *)

\* Read while another command writes, all that is tracked is missing from the copy.
AddLoad(p) ==
    /\ pc[p] = "add_load"
    /\ loaded' = [loaded EXCEPT ![p] = Load \cup {sig[p]}]
    /\ Goto(p, "add_open")
    /\ raced' = raced \cup (file.keys \ Load)
    /\ UNCHANGED <<file, held, sig, tracked, alive, excused, faults>>

OpenToWrite(p) ==
    /\ pc[p] \in {"add_open", "prune_open"}
    /\ file' = [file EXCEPT !.text = "empty"]
    /\ Goto(p, IF pc[p] = "add_open" THEN "add_write" ELSE "prune_write")
    /\ UNCHANGED <<held, sig, tracked, alive, loaded>> /\ Fine

\* q looked too early to find s, and will write a file without it.
Overlooks(q, s) ==
    \/ pc[q] = "positions" /\ held[s] = "orders" /\ s \notin alive[q]
    \/ pc[q] = "prune_load" /\ s \notin alive[q]
    \/ pc[q] \in {"add_open", "add_write", "prune_open", "prune_write"} /\ s \notin loaded[q]

Overtaken(p) ==
    {s \in {sig[p]} : pc[p] = "add_write" /\ \E q \in Processes \ {p} : Overlooks(q, s)}

\* Over what another command wrote since p opened the file; a text that may be the longer
\* one shows behind p's.
Overwrites(p) ==
    file.text = "garbage" \/ (file.text = "whole" /\ ~(file.keys \subseteq loaded[p]))

Write(p) ==
    /\ pc[p] \in {"add_write", "prune_write"}
    /\ \/ /\ file' = [keys |-> loaded[p], text |-> "whole"]
          /\ raced' = raced \cup Overtaken(p)
       \/ /\ Overwrites(p)
          /\ file' = [keys |-> loaded[p], text |-> "garbage"]
          /\ raced' = raced \cup file.keys \cup loaded[p]
    /\ Goto(p, IF pc[p] = "add_write" THEN "orders" ELSE "end")
    /\ UNCHANGED <<held, sig, tracked, alive, loaded, excused, faults>>

\* What all_alive_magics asks for first, and next.
Answer(p, s) == held[s] = IF pc[p] = "orders" THEN "orders" ELSE "position"

\* all_alive_magics: two calls, and a failed one counts as an empty answer.
AskAlive(p) ==
    /\ pc[p] \in {"orders", "positions"}
    /\ Goto(p, IF pc[p] = "orders" THEN "positions" ELSE "prune_load")
    /\ \/ /\ alive' = [alive EXCEPT ![p] = @ \cup {s \in Signals : Answer(p, s)}]
          /\ Fine
       \/ /\ Fault /\ UNCHANGED <<alive, raced>>
          /\ excused' = excused \cup {s \in Signals : Live(s)}
    /\ UNCHANGED <<file, held, sig, tracked, loaded>>

FaultyKept(p) == alive[p] \cap tracked[p]   \* what this cycle replayed
Kept(p) == Load \cap alive[p]

PruneLoad(p) ==
    /\ pc[p] = "prune_load"
    /\ loaded' = [loaded EXCEPT ![p] = Kept(p)]
    /\ Goto(p, IF Kept(p) = Load THEN "end" ELSE "prune_open")
    /\ UNCHANGED <<file, held, sig, tracked, alive>> /\ Fine

\* A cycle keeps nothing for the next one.
Forget(p) ==
    /\ tracked' = [tracked EXCEPT ![p] = {}]
    /\ alive' = [alive EXCEPT ![p] = {}] /\ loaded' = [loaded EXCEPT ![p] = {}]

\* The watch ends when nothing it tracked this cycle was alive.
AllDone(p) == tracked[p] \cap alive[p] = {}

EndCycle(p) ==
    /\ pc[p] = "end"
    /\ Goto(p, IF p \in Deciders \/ AllDone(p) THEN "off" ELSE "read") /\ Forget(p)
    /\ UNCHANGED <<file, held, sig>> /\ Fine

\* Ctrl+C or a crash.  What is placed but not written, or half written, is lost.
Kill(p) ==
    /\ Running(p) /\ Fault
    /\ excused' = excused
         \cup (IF pc[p] \in {"add_load", "add_open", "add_write"} THEN {sig[p]} ELSE {})
         \cup (IF pc[p] \in {"add_write", "prune_write"} THEN file.keys \ Load ELSE {})
    /\ Goto(p, "off") /\ Forget(p)
    /\ UNCHANGED <<file, held, sig, raced>>

-----------------------------------------------------------------------------

RegistryInit ==
    /\ file = [keys |-> {}, text |-> "whole"] /\ held = [s \in Signals |-> "none"]
    /\ pc = [p \in Processes |-> "off"] /\ sig \in [Processes -> Signals]
    /\ tracked = [p \in Processes |-> {}] /\ alive = tracked /\ loaded = tracked
    /\ excused = {} /\ raced = {} /\ faults = 0

Step(p) ==
    \/ ReadRegistry(p) \/ SanityChecks(p) \/ PlaceSignal(p)
    \/ AddLoad(p) \/ OpenToWrite(p) \/ Write(p)
    \/ AskAlive(p) \/ PruneLoad(p) \/ EndCycle(p)

RegistryNext ==
    \/ \E s \in Signals : FillOrders(s) \/ Finish(s) \/ \E p \in Processes : StartDecide(p, s)
    \/ \E p \in Processes : StartWatch(p) \/ Step(p) \/ Kill(p)

RegistrySpec == RegistryInit /\ [][RegistryNext]_registryVars

-----------------------------------------------------------------------------
(* Properties                                                              *)

\* SignalRegistry: "entries whose magic has no MT5 footprint are removed", and the playbook
\* runs `manage --watch` beside `decide`.  Without a fault a key would leave the file only
\* for a signal that is gone.
PruneOnlyDead ==
    [][\A s \in file.keys \ file'.keys : ~Live(s) \/ s \in excused]_registryVars

\* While no command runs, every signal the broker holds is tracked, however the commands
\* overlapped: it takes a kill between placing and writing, a failed query, a read or write
\* amid another's write, or a command that looked before the signal was written and writes
\* after, to lose one.
LiveIsTracked ==
    (\A p \in Processes : ~Running(p)) =>
        \A s \in Signals : Live(s) => s \in Load \cup excused \cup raced
=============================================================================
