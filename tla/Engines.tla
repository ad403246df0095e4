------------------------------ MODULE Engines ------------------------------
(***************************************************************************)
(* The two engines of the program.  A process runs prefill-v2 (run, chat,  *)
(* serve) or the older Qwen35RuntimeEngine (debug run); both are given     *)
(* tokens and asked for logits, and to their user each is the model of     *)
(* ReferenceGeneration.  The older engine gives every convolution the      *)
(* position of its token, so that it never skips an input.                 *)
(***************************************************************************)
EXTENDS PrefillModel

CONSTANTS Setups,        \* what the older engine may be started with
          OlderCapacity  \* rows of its key/value caches

ASSUME EnginesAssumption == OlderCapacity \in Nat \ {0}

VARIABLES engine,                           \* the one this process runs
          setup, memory, captured, decode   \* the state of the older one

olderVars == <<setup, memory, captured, decode>>
ownVars == <<device, position, checkpoint, formats, opted, progress, sound>>
allVars == <<vars, engine, olderVars>>

Older == INSTANCE StepEngine WITH Capacity <- OlderCapacity

\* A process is started with switches that fit together.  The engine that is
\* not run has one initial state.
EitherInit ==
    /\ engine \in {"prefill_v2", "older"}
    /\ Init
    /\ Older!Init
    /\ Older!Coherent(setup)
    /\ engine = "prefill_v2" => setup = CHOOSE s \in Setups : Older!Coherent(s)
    /\ engine = "older" => formats = (CHOOSE f \in Formats : TRUE) /\ ~opted

EitherNext ==
    \/ engine = "prefill_v2" /\ Next /\ UNCHANGED <<engine, olderVars>>
    \/ engine = "older" /\ Older!Next /\ UNCHANGED <<engine, ownVars>>

EitherSpec == EitherInit /\ [][EitherNext]_allVars

-----------------------------------------------------------------------------
\* Positions stay within the caches of the engine that is run.
EngineTypeOK == IF engine = "prefill_v2" THEN TypeOK ELSE Older!TypeOK

\* Rows, convolution history and GDN state of prefill-v2 are the reference's,
\* after any mix of tiles, graph replays, steps, resets and resumptions, as long
\* as no tile was run at a position that makes its convolution skip inputs (the
\* second tile of a cold prompt, or of the suffix of a very short prefix).
TilesHoldSequence == engine = "prefill_v2" => DeviceHoldsSequence

\* Rows, ring and state of the older engine are the reference's under any
\* switches, whatever earlier tokens and requests left in the buffers of run().
StepsHoldSequence == engine = "older" => Older!LayersHoldSequence

\* The profiled copies of the attention programs (forward_profiled(),
\* decode_profiled()) compute what the programs they were copied from compute.
ProfiledLayersAgree == engine = "prefill_v2" => ProfiledAgree

\* A launch of the older engine's decode graph, captured at whatever position,
\* does to every buffer what step() would have done ("reusable-graph
\* correctness").
ReplayIsStep == engine = "older" => Older!ReplayIsStep

=============================================================================
