---------------------------- MODULE StepLaunches ----------------------------
(***************************************************************************)
(* The kernels the older engine launches for one token, as steps on the    *)
(* buffers of a layer.                                                     *)
(*                                                                         *)
(* Unlike the workspace of prefill-v2, every layer owns its buffers, and   *)
(* they outlive the token, the request and a reset: a launch that reads a  *)
(* buffer nobody wrote for this token finds what an earlier one left.  The *)
(* memory of a layer has                                                   *)
(*   at      its float buffers, by the quantity of the reference they are  *)
(*           for; "projected" also takes the FFN down projection, and      *)
(*           "past" and "state" are the convolution ring and the GDN state *)
(*   copies  its quantised activation buffers: layout and what was copied  *)
(*   rows    its key/value cache (row 1 is position 0).                    *)
(* "first" and "second" stand for the registers of a fused kernel.         *)
(***************************************************************************)
EXTENDS Quantities

FloatBuffers ==
    {"first", "second", "queryNorm", "keyNorm", "nextNormalized"} \cup
    ((DOMAIN FeedForward \cup DOMAIN Recurrent \cup DOMAIN Full) \ {"ffnDown", "row"})
    \cup {"input"}

CopyBuffers == {"q8", "q8_1", "mmq", "mx", "nextQ8"}

NoCopy == [layout |-> "none", of |-> Wrong]

\* A layer whose sequence is h, with nothing in its other buffers.
LayerHolding(layer, h) ==
    [at |-> [b \in FloatBuffers |->
                IF b \in {"past", "state"} THEN Value(b, layer, h) ELSE Wrong],
     copies |-> [b \in CopyBuffers |-> NoCopy],
     rows |-> [r \in 1 .. Capacity |->
                 IF r <= Len(h) THEN Value("row", layer, SubSeq(h, 1, r)) ELSE Wrong]]

\* The states are zeroed, every other buffer stays as it is.
Cleared(m, layer) ==
    [m EXCEPT !.at = [@ EXCEPT !["past"] = Zero("past", layer),
                               !["state"] = Zero("state", layer)],
              !.rows = LayerHolding(layer, <<>>).rows]

-----------------------------------------------------------------------------
\* Launches, as run() enqueues them.
Make(what, ins, out)            == [kernel |-> "make", what |-> what, ins |-> ins, out |-> out]
Copy(in, out)                   == [kernel |-> "copy", in |-> in, out |-> out]
Quantize(in, into, layout)      == [kernel |-> "quantize", in |-> in, into |-> into, layout |-> layout]
Project(what, from, layout, out) ==
    [kernel |-> "project", what |-> what, from |-> from, layout |-> layout, out |-> out]
Taps(position)                  == [kernel |-> "taps", position |-> position]
Rotate(in, out, position)       == [kernel |-> "rotate", in |-> in, out |-> out, position |-> position]
Place(position)                 == [kernel |-> "place", position |-> position]
Attend(position)                == [kernel |-> "attend", position |-> position]
HandOver(quantized)             == [kernel |-> "handOver", quantized |-> quantized]

Write(m, out, value) == [m EXCEPT !.at = [@ EXCEPT ![out] = value]]

\* What the ring holds where a token at this position looks for its past.
TapsAt(m, position) ==
    IF Len(m.at["past"].of) = position THEN m.at["past"] ELSE Wrong

Rotated(value, position) == IF Len(value.of) = position + 1 THEN value ELSE Wrong

\* A matrix kernel reads one layout of its activations.
Projected(m, layer, launch) ==
    IF m.copies[launch.from].layout = launch.layout
    THEN Compute(launch.what, layer, <<m.copies[launch.from].of>>) ELSE Wrong

\* The rows up to the token's own.
Attended(m, layer, position) ==
    Compute("attnGatedOutput", layer,
            <<m.at["attnQRope"], m.at["gate"]>> \o SubSeq(m.rows, 1, position + 1))

\* The last addition, with the norm of the next layer (and its Q8_1 copy).
HandedOver(m, layer, launch) ==
    LET next == Compute("normalized", layer + 1, <<m.at["output"]>>) IN
    [Write(m, "nextNormalized", next) EXCEPT
        !.copies = IF launch.quantized
                   THEN [@ EXCEPT !["nextQ8"] = [layout |-> "q8_1", of |-> next]] ELSE @]

Exec(m, layer, launch) ==
    CASE launch.kernel = "make" ->
             Write(m, launch.out, Compute(launch.what, layer,
                 [i \in DOMAIN launch.ins |-> m.at[launch.ins[i]]]))
      [] launch.kernel = "copy" -> Write(m, launch.out, m.at[launch.in])
      [] launch.kernel = "quantize" ->
             [m EXCEPT !.copies = [@ EXCEPT ![launch.into] =
                 [layout |-> launch.layout, of |-> m.at[launch.in]]]]
      [] launch.kernel = "project" -> Write(m, launch.out, Projected(m, layer, launch))
      [] launch.kernel = "taps" -> Write(m, "first", TapsAt(m, launch.position))
      [] launch.kernel = "rotate" ->
             Write(m, launch.out, Rotated(m.at[launch.in], launch.position))
      [] launch.kernel = "place" ->
             [m EXCEPT !.rows[launch.position + 1] = Rotated(m.at["first"], launch.position)]
      [] launch.kernel = "attend" ->
             Write(m, "attnGatedOutput", Attended(m, layer, launch.position))
      [] launch.kernel = "handOver" -> HandedOver(m, layer, launch)

\* The memory of a layer after its program.
Run(memory, layer, program) ==
    LET after[i \in 0 .. Len(program)] ==
            IF i = 0 THEN memory ELSE Exec(after[i - 1], layer, program[i])
    IN  after[Len(program)]

=============================================================================
