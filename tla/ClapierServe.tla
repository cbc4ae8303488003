------------------------------ MODULE ClapierServe ------------------------------
(***************************************************************************)
(* The life of clapier (crates/clapier): it is started on a command line,  *)
(* joins the log port to hear the pulses, binds the web port, serves, and  *)
(* on a signal finishes what it was answering; and another one is started  *)
(* while it does, to take its place. The adoption of a rabbit that finds   *)
(* no bytecode is in ClapierBurrow, what the pulses do in ClapierFleet.    *)
(*                                                                         *)
(* The log port is shared. A socket that joins it next to the corpse of a  *)
(* process that has ended may stay deaf, which the roll call should catch. *)
(***************************************************************************)
EXTENDS ClapierContent

CONSTANTS Instances,     \* the processes, each started once
          Lines,         \* command lines: what --root and --overlay name
          ATTEMPTS       \* of the roll call

ASSUME ServeAssumption ==
    /\ IsFiniteSet(Instances) /\ ATTEMPTS \in Nat \ {0}
    /\ Lines \subseteq [root : {"unset", "missing", "there"},
                        overlay : {"unset", "missing", "there"}]

VARIABLES
    line,          \* the command line they are all started on
    life,          \* what each process does
    ear, tries,    \* its pulse listener, and how many sockets it has bound
    port,          \* the processes that have a socket on the log port
    deaf,          \* the sockets that hear no broadcast
    haunted,       \* history: its binds made next to a corpse
    unlucky,       \* history: a roll call that no datagram answered, though it hears
    by             \* which process a request is made to

hearing == <<ear, tries, port, deaf, haunted, unlucky>>
vars == <<roots, content, line, life, hearing, by>>

Nobody == "nobody"
Lives == {"off", "starting", "serving", "draining", "gone"}
Ears == {"off", "binding", "roll call", "hearing", "stopped"}

Named(l) == (IF l.root = "there" THEN {"base"} ELSE {})
            \cup (IF l.overlay = "there" THEN {"overlay"} ELSE {})

Init ==
    /\ ContentInit
    /\ line \in Lines /\ roots = Named(line)
    /\ life = [i \in Instances |-> "off"]
    /\ ear = [i \in Instances |-> "off"] /\ tries = [i \in Instances |-> 0]
    /\ port = {} /\ deaf = {}
    /\ haunted = [i \in Instances |-> 0] /\ unlucky = {}
    /\ by = [r \in Requests |-> Nobody]

Up(i) == life[i] \in {"starting", "serving", "draining"}
Of(i) == {r \in Requests : by[r] = i}
Become(i, what) == life' = [life EXCEPT ![i] = what]

--------------------------------------------------------------------------------
(* main.                                                                   *)

\* A tree that was asked for and is not there is no tree to serve without.
Acceptable == /\ {line.root, line.overlay} # {"unset"}
              /\ "missing" \notin {line.root, line.overlay}

\* The listener is spawned before the web port is bound; --pulse-port 0 turns
\* it off.
Start(i) ==
    /\ life[i] = "off"
    /\ Become(i, IF Acceptable THEN "starting" ELSE "gone")
    /\ \E mode \in {"binding", "off"} :
          ear' = [ear EXCEPT ![i] = IF Acceptable THEN mode ELSE "off"]
    /\ UNCHANGED <<roots, content, line, tries, port, deaf, haunted, unlucky, by>>

\* A process that ends leaves its socket on the log port for the kernel to close.
End(i) == Become(i, "gone") /\ ear' = [ear EXCEPT ![i] = "off"]

\* The web port may not be had, for one that another clapier serves on.
Bind(i) ==
    /\ life[i] = "starting"
    /\ \/ End(i)
       \/ /\ \A j \in Instances : life[j] # "serving"
          /\ Become(i, "serving") /\ UNCHANGED ear
    /\ UNCHANGED <<roots, content, line, tries, port, deaf, haunted, unlucky, by>>

\* The signal closes the web port at once; a second one is not heard.
Signal(i) ==
    /\ life[i] = "serving" /\ Become(i, "draining")
    /\ UNCHANGED <<roots, content, line, hearing, by>>

\* Mutant: the pulse listener is waited for too.
DrainedToo(i) == Of(i) = {} /\ ear[i] \in {"off", "stopped"}

Drained(i) == Of(i) = {}

Stop(i) ==
    /\ life[i] = "draining" /\ Drained(i) /\ End(i)
    /\ UNCHANGED <<roots, content, line, tries, port, deaf, haunted, unlucky, by>>

\* Killed, or signalled before it has bound the web port.
Kill(i) ==
    /\ Up(i) /\ End(i)
    /\ Forget(Of(i)) /\ by' = [r \in Requests |-> IF by[r] = i THEN Nobody ELSE by[r]]
    /\ UNCHANGED <<roots, line, tries, port, deaf, haunted, unlucky>>

--------------------------------------------------------------------------------
(* listen_pulses and log_socket_verified.                                  *)

Corpses == {i \in port : life[i] = "gone"}
Hear(i, what) == ear' = [ear EXCEPT ![i] = what]

\* The last socket is taken unverified.
Join(i) ==
    /\ ear[i] = "binding" /\ Hear(i, IF tries[i] < ATTEMPTS THEN "roll call" ELSE "hearing")
    /\ tries' = [tries EXCEPT ![i] = @ + 1] /\ port' = port \cup {i}
    /\ \/ deaf' = deaf \ {i}
       \/ Corpses # {} /\ deaf' = deaf \cup {i}
    /\ haunted' = [haunted EXCEPT ![i] = IF Corpses # {} THEN @ + 1 ELSE @]
    /\ UNCHANGED <<roots, content, line, life, unlucky, by>>

\* The port or a probe cannot be had, or later the socket breaks: the listener
\* returns, and nobody starts it again.
Break(i) ==
    /\ ear[i] \in {"binding", "roll call", "hearing"} /\ Hear(i, "stopped")
    /\ port' = port \ {i} /\ deaf' = deaf \ {i}
    /\ UNCHANGED <<roots, content, line, life, tries, haunted, unlucky, by>>

\* Mutant: the probe is sent to the socket, which a deaf one hears too.
HeardAny(i) == TRUE

\* The probe, or a rabbit's own pulse: broadcasts both.
Heard(i) == i \notin deaf

RollCall(i) ==
    /\ ear[i] = "roll call" /\ Heard(i) /\ Hear(i, "hearing")
    /\ UNCHANGED <<roots, content, line, life, tries, port, deaf, haunted, unlucky, by>>

\* Two seconds and a half, the socket is dropped, and a pause.
Silence(i) ==
    /\ ear[i] = "roll call" /\ Hear(i, "binding")
    /\ port' = port \ {i} /\ deaf' = deaf \ {i}
    /\ unlucky' = IF i \in deaf THEN unlucky ELSE unlucky \cup {i}
    /\ UNCHANGED <<roots, content, line, life, tries, haunted, by>>

\* The kernel closes a dead process's socket.
Bury(i) ==
    /\ i \in Corpses /\ port' = port \ {i} /\ deaf' = deaf \ {i}
    /\ UNCHANGED <<roots, content, line, life, ear, tries, haunted, unlucky, by>>

--------------------------------------------------------------------------------
(* Requests.                                                               *)

\* The first bytes of a request have come; a connection that has said nothing, or
\* says nothing more, is closed on the signal.
Accept(i, r) ==
    /\ life[i] = "serving" /\ Expect(r) /\ by' = [by EXCEPT ![r] = i]
    /\ UNCHANGED <<roots, line, life, hearing>>

\* The rest of its head, and of its form, has come, which no timer limits.
Complete(r) == Receive(r) /\ UNCHANGED <<roots, line, life, hearing, by>>

Work(r) == respond(r) /\ UNCHANGED <<roots, line, life, hearing, by>>

\* The peer has read the answer, or hung up before it could, or before it had asked.
Leave(r) ==
    /\ at[r] # "off" /\ Forget({r}) /\ by' = [by EXCEPT ![r] = Nobody]
    /\ UNCHANGED <<roots, line, life, hearing>>

People == \E layer \in Layers : Change(layer) /\ UNCHANGED <<roots, line, life, hearing, by>>

Ear(i) == Join(i) \/ RollCall(i) \/ Silence(i)

Next ==
    \/ \E i \in Instances : \/ Start(i) \/ Bind(i) \/ Signal(i) \/ Stop(i) \/ Kill(i)
                            \/ Ear(i) \/ Break(i) \/ Bury(i)
                            \/ \E r \in Requests : Accept(i, r)
    \/ \E r \in Requests : Complete(r) \/ Work(r) \/ Leave(r)
    \/ People

Spec == Init /\ [][Next]_vars

\* The runtime takes a step it can take: what it awaits of the file system and of
\* its timers comes. Nothing is asked of the peers, who may leave a request
\* unfinished or an answer unread, nor of who signals.
Fairness ==
    /\ \A i \in Instances : WF_vars(Bind(i)) /\ WF_vars(Stop(i)) /\ WF_vars(Ear(i))
    /\ \A r \in Requests : WF_vars(Work(r))

FairSpec == Spec /\ Fairness

--------------------------------------------------------------------------------
\* A listener that believes to hear is deaf only if a corpse lay on the port at
\* every one of its binds, or a roll call went unanswered by mere bad luck.
DeafOnlyIfHaunted ==
    \A i \in Instances : (ear[i] = "hearing" /\ i \in deaf) =>
        i \in unlucky \/ haunted[i] = ATTEMPTS + 1

\* Held by a peer that does not finish its request, or does not take its answer.
Held(i, r) == by[r] = i /\ at[r] \in {"receiving", "sending"}

\* The roll call comes to an end. A shutdown that does not is held, from some moment
\* on, by one and the same peer: no handler, no listener and no sequence of peers
\* keeps axum::serve from returning.
ComesToRest ==
    \A i \in Instances :
        /\ (ear[i] = "binding") ~> (ear[i] \in {"hearing", "stopped", "off"})
        /\ <>[](life[i] = "draining") => \E r \in Requests : <>[]Held(i, r)
================================================================================
