----------------------------- MODULE SessionHost -----------------------------
(***************************************************************************)
(* The SDK host of a session (SessionSdkHost in sdk/host/host.ts) with its *)
(* registry of reverse leases and its event stream (sdk/host/events.ts):   *)
(* the host is started and stopped, publishes that the session is ready,   *)
(* at once or after an activation that a gate must authorize, and passes   *)
(* the frames of the connections on to the registry.  Between the awaits   *)
(* of activate and stop everything else may happen.                        *)
(***************************************************************************)
EXTENDS ReverseLeases, Sequences

CONSTANTS RingSize,       \* events kept for replay
          MaxEvents,      \* bound on the events of one generation
          MaxGenerations, \* bound on the starts of the host
          MaxActivations  \* bound on the activations that wait at one time

ASSUME HostAssumption ==
    /\ RingSize \in Nat \ {0} /\ MaxEvents \in Nat /\ MaxGenerations \in Nat /\ MaxActivations \in Nat

VARIABLES mode,       \* readiness: "immediate", or "deferred" with an activationGate
          host,       \* #started and #stopping: "off", "started" or "stopping"
          listening,  \* the subscription to inbound frames
          stopping,   \* #stopPromise: whose stop awaits unregister
          disposed,   \* the registry was disposed: the bus drops the host
          generation, \* events.generation
          frames,     \* the sequence numbers in the ring
          seq,        \* the last one given out
          readyAt,    \* #readyGeneration
          queue,      \* #activation: the expected generations of the attempts not yet over
          asked,      \* the generation for which the gate is being asked
          allowed,    \* history: generations for which the gate said yes
          published   \* history: how often readiness was published in each generation

activationVars == <<mode, generation, frames, seq, readyAt, queue, asked, allowed, published>>
hostVars == <<mode, host, listening, stopping, disposed, generation, frames, seq, readyAt, queue, asked, allowed,
              published>>
vars == <<leaseVars, hostVars>>

Generations == 0 .. MaxGenerations
Any == MaxGenerations + 1   \* an attempt that names no generation

TypeOK ==
    /\ LeasesTypeOK
    /\ mode \in {"immediate", "deferred"} /\ host \in {"off", "started", "stopping"}
    /\ listening \in BOOLEAN /\ stopping \in {"no", "call", "bus"} /\ disposed \in BOOLEAN
    /\ generation \in Generations /\ seq \in Nat /\ frames \in Seq(Nat)
    /\ readyAt \in Generations \cup {None} /\ asked \in Generations \cup {None}
    /\ queue \in Seq(Generations \cup {Any})
    /\ allowed \subseteq Generations /\ published \in [Generations -> Nat]

Init ==
    /\ LeasesInit
    /\ mode \in {"immediate", "deferred"}
    /\ host = "off" /\ listening = FALSE /\ stopping = "no" /\ disposed = FALSE
    /\ generation = 0 /\ frames = <<>> /\ seq = 0
    /\ readyAt = None /\ asked = None /\ queue = <<>>
    /\ allowed = {} /\ published = [g \in Generations |-> 0]

-----------------------------------------------------------------------------
(* The event stream *)

\* emit pushes, and shifts what exceeds the ring.
Ring(ring, s) == LET pushed == Append(ring, s) IN IF Len(pushed) > RingSize THEN Tail(pushed) ELSE pushed

Emit ==
    /\ host # "off" /\ seq < MaxEvents
    /\ seq' = seq + 1 /\ frames' = Ring(frames, seq + 1)
    /\ UNCHANGED <<leaseVars, mode, host, listening, stopping, disposed, generation, readyAt, queue, asked, allowed,
                   published>>

Oldest == IF frames = <<>> THEN seq + 1 ELSE frames[1]

\* Mutant of Gap: one event missing is taken for none.
GapFromCursor(last, g) == IF g # generation THEN "generation_reset" ELSE IF last + 2 < Oldest THEN "sequence_gap" ELSE "none"

\* What replay reports to a client that has seen event `last` of generation g ...
Gap(last, g) == IF g # generation THEN "generation_reset" ELSE IF last + 1 < Oldest THEN "sequence_gap" ELSE "none"

\* ... and what it sends.
Replayed(last, g) ==
    {frames[i] : i \in {i \in 1 .. Len(frames) : frames[i] > last \/ Gap(last, g) # "none"}}

-----------------------------------------------------------------------------
(* Start, activation, stop *)

\* #publishReadiness emits session_ready in the current generation.
Publish ==
    /\ readyAt' = generation
    /\ published' = [published EXCEPT ![generation] = @ + 1]
    /\ seq' = seq + 1 /\ frames' = Ring(frames, seq + 1)

\* start: a new generation of events, with the first one in it; then the frames are subscribed.
Start ==
    /\ host = "off" /\ ~disposed /\ generation < MaxGenerations
    /\ host' = "started" /\ listening' = TRUE
    /\ generation' = generation + 1 /\ seq' = 1 /\ frames' = <<1>>
    /\ IF mode = "immediate"
       THEN readyAt' = generation + 1 /\ published' = [published EXCEPT ![generation + 1] = @ + 1]
       ELSE UNCHANGED <<readyAt, published>>
    /\ UNCHANGED <<leaseVars, mode, stopping, disposed, queue, asked, allowed>>

\* A session_activate frame: the attempts run one after the other.
Activate(expected) ==
    /\ listening /\ Len(queue) < MaxActivations
    /\ queue' = Append(queue, expected)
    /\ UNCHANGED <<leaseVars, mode, host, listening, stopping, disposed, generation, frames, seq, readyAt, asked,
                   allowed, published>>

Done == queue' = Tail(queue) /\ asked' = None

\* #activateOnce up to its gate: refused, already done, or on to the gate.
ActivateOnce ==
    /\ queue # <<>> /\ asked = None
    /\ IF host = "off" \/ Head(queue) \notin {Any, generation} \/ readyAt = generation
       THEN Done /\ UNCHANGED <<readyAt, published, seq, frames>>
       ELSE IF mode = "deferred"
            THEN asked' = generation /\ UNCHANGED <<queue, readyAt, published, seq, frames>>
            ELSE Done /\ Publish
    /\ UNCHANGED <<leaseVars, mode, host, listening, stopping, disposed, generation, allowed>>

\* Mutant of GateAnswers: the generation is not checked again after the gate has answered.
GateTrusted(yes) ==
    /\ asked # None
    /\ allowed' = IF yes THEN allowed \cup {asked} ELSE allowed
    /\ IF yes /\ host = "started" /\ readyAt # generation THEN Publish ELSE UNCHANGED <<readyAt, published, seq, frames>>
    /\ Done
    /\ UNCHANGED <<leaseVars, mode, host, listening, stopping, disposed, generation>>

\* The gate answers, or fails; the host may have stopped or rolled to a new generation meanwhile.
GateAnswers(yes) ==
    /\ asked # None
    /\ allowed' = IF yes THEN allowed \cup {asked} ELSE allowed
    /\ IF yes /\ host = "started" /\ generation = asked /\ readyAt # generation
       THEN Publish ELSE UNCHANGED <<readyAt, published, seq, frames>>
    /\ Done
    /\ UNCHANGED <<leaseVars, mode, host, listening, stopping, disposed, generation>>

\* stop, called by the bus to tear the session down (stopSession) or by anybody else: fenced
\* and unsubscribed before the first await; a call beside it joins it.
Stop(caller) ==
    /\ host # "off" /\ stopping = "no"
    /\ host' = "stopping" /\ listening' = FALSE /\ stopping' = caller
    /\ UNCHANGED <<leaseVars, disposed, activationVars>>

\* Mutant of StopEnds: the registry is disposed of only after a stop that succeeded.
StopEndsDisposing(ok) ==
    /\ stopping # "no"
    /\ stopping' = "no"
    /\ host' = IF ok THEN "off" ELSE host
    /\ \/ ok /\ Dispose /\ disposed' = TRUE
       \/ (stopping = "call" \/ ~ok) /\ UNCHANGED <<leaseVars, disposed>>
    /\ UNCHANGED <<listening, activationVars>>

\* unregister returns, or throws and leaves the host fenced until stop is called again.
\* stopSession disposes of the registry in both cases, the preparation of a predecessor for
\* its last response only when the stop succeeded, and other callers not at all.
StopEnds(ok) ==
    /\ stopping # "no"
    /\ stopping' = "no"
    /\ host' = IF ok THEN "off" ELSE host
    /\ \/ (stopping = "bus" \/ ok) /\ Dispose /\ disposed' = TRUE
       \/ stopping = "call" /\ UNCHANGED <<leaseVars, disposed>>
    /\ UNCHANGED <<listening, activationVars>>

-----------------------------------------------------------------------------
\* A frame reaches the host from a connection that is open, while it is subscribed.
Speaks(n) == listening /\ conn[n] = "open"

Provide(n) ==
    /\ Speaks(n)
    /\ \/ \E c \in Capabilities, d \in Definitions, expected \in 1 .. minted \cup {None} : Register(n, c, d, expected)
       \/ \E c \in Capabilities, to \in Connections \cup {None} : Release(n, c, to)
       \/ \E r \in Requests : Respond(n, r)
    /\ UNCHANGED hostVars

\* The session asks its providers; callers abort, frames fail.
Ask ==
    /\ \/ \E r \in Requests, c \in Capabilities : Request(r, c)
       \/ \E r \in Requests : GiveUp(r)
       \/ \E c \in Capabilities : Notice(c)
    /\ UNCHANGED hostVars

Time == (\E c \in Capabilities : Lapse(c) \/ GraceEnds(c)) /\ UNCHANGED hostVars

\* The interval runs until dispose clears it.
Tick == ~disposed /\ Sweep /\ UNCHANGED hostVars

Drop(n, to) == Disconnect(n, to) /\ UNCHANGED hostVars

Next ==
    \/ Start \/ Stop("call") \/ Stop("bus") \/ Emit \/ ActivateOnce
    \/ \E expected \in 1 .. MaxGenerations \cup {Any} : Activate(expected)
    \/ \E ok \in BOOLEAN : GateAnswers(ok) \/ StopEnds(ok)
    \/ \E n \in Connections : Provide(n) \/ Drop(n, "fenced") \/ Drop(n, "closed")
    \/ Ask \/ Time \/ Tick

Spec == Init /\ [][Next]_vars

\* The interval fires, and unregister returns or throws.
Fairness == WF_vars(Tick) /\ WF_vars(\E ok \in BOOLEAN : StopEnds(ok))
FairSpec == Spec /\ Fairness

-----------------------------------------------------------------------------
(* Properties *)

\* Readiness is published by a host that is not being stopped ("No in-flight activation may
\* publish readiness across" the start of a teardown), once in a generation however many
\* activations wait, and in a deferred session only if the gate has authorized that very
\* generation, whatever restarts come between the question to the gate and its answer.
ReadyIsAuthorized ==
    [][\A g \in Generations : published'[g] # published[g] =>
         /\ host' = "started" /\ generation' = g
         /\ published[g] = 0 /\ (mode = "deferred" => g \in allowed')]_vars

\* What a client resumes with is complete: the replay and the gap it reports make up all the
\* events after the client's cursor, and a client of an earlier generation is told so.
ReplayIsComplete ==
    \A g \in 1 .. generation, last \in 0 .. seq :
        IF g # generation THEN Gap(last, g) = "generation_reset"
        ELSE Replayed(last, g) = (IF Gap(last, g) = "none" THEN last + 1 ELSE Oldest) .. seq

\* Definitions whose lease has lapsed are taken back although nobody asks for them any more.
LapsedIsRemoved == \A c \in Capabilities : []<>(Lapsed(c) => installed[c] = None)

\* A caller that waits for a provider when the session is torn down by stopSession is let go,
\* also when unregister fails, and nobody waits for a provider again.
TeardownSettles == stopping = "bus" ~> [](UnderWay = {})
=============================================================================
