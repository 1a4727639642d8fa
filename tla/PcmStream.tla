------------------------------ MODULE PcmStream ------------------------------
(***************************************************************************)
(* The microphone's audio on its way to the speech service: blocks of      *)
(* samples at the rate of the device are resampled to the rate of the      *)
(* service, written as 16 bit values and cut into chunks of equal size.    *)
(* Values are kept as multiples of 1 / TargetRate, so that interpolation   *)
(* is exact.                                                               *)
(***************************************************************************)
EXTENDS Integers, Sequences, SequencesExt, FiniteSetsExt

CONSTANTS Rates, TargetRate, \* sample rates of devices, and of the service
          ChunkBytes, Samples,
          MaxSamples, MaxBlock \* bounds on samples of a stream and of a block
PcmConstants == Rates \subseteq Nat \ {0} /\ {TargetRate, ChunkBytes} \subseteq Nat \ {0} /\ Samples \subseteq Int /\ {MaxSamples, MaxBlock} \subseteq Nat

VARIABLES rate,     \* streamSourceRate
          input,    \* pendingInput
          start,    \* pendingInputStart
          total,    \* totalInputSamples
          made,     \* producedOutputSamples
          bytes,    \* pendingBytes
          chunks,   \* what was given to onChunk
          stopped, ended,
          spoken    \* all samples that were pushed
vars == <<rate, input, start, total, made, bytes, chunks, stopped, ended, spoken>>
Init == rate \in Rates /\ input = <<>> /\ start = 0 /\ total = 0 /\ made = 0 /\ bytes = <<>> /\ chunks = <<>> /\ stopped = FALSE /\ ended = FALSE /\ spoken = <<>>
-----------------------------------------------------------------------------
\* Two bytes for a sample.
floatTo16BitPCM(v) == <<[of |-> v, half |-> "low"], [of |-> v, half |-> "high"]>>
PCM(vs) == FlattenSeq([i \in 1..Len(vs) |-> floatTo16BitPCM(vs[i])])
\* The value between two samples, at position k * rate / TargetRate of a
\* sequence whose first sample has position s.
Position(k) == (k * rate) \div TargetRate
Interpolated(in, s, k) ==
  LET left == Position(k) - s + 1
      right == IF left + 1 <= Len(in) THEN left + 1 ELSE Len(in)
  IN in[left] * TargetRate + (in[right] - in[left]) * ((k * rate) % TargetRate)
resampleLinear(in) == [k \in 1..((Len(in) * TargetRate) \div rate) |-> Interpolated(in, 0, k - 1)]
\* The output that the input allows for, up to the first sample that is gone.
Produced(in, n) ==
  LET goal == (n * TargetRate) \div rate
      there(k) == Position(k) - start \in 0..(Len(in) - 1)
      last == CHOOSE k \in made..(IF goal > made THEN goal ELSE made) : (\A j \in made..(k - 1) : there(j)) /\ (k >= goal \/ ~ there(k))
  IN [i \in 1..(last - made) |-> Interpolated(in, start, made + i - 1)]
\* trimInput: one sample before the next that is needed is kept.
trimInput(in, m) == LET need == Position(m) - 1 IN Max({0, Min({Len(in), Max({start, need}) - start})})
drainFullChunks(b) == Len(b) \div ChunkBytes
\* onaudioprocess: push, and a callback for every full chunk.
push(block) ==
  /\ ~ stopped /\ Len(spoken) + Len(block) <= MaxSamples /\ total' = total + Len(block) /\ spoken' = spoken \o block
  /\ \E in \in {input \o block} : \E vs \in {Produced(in, total + Len(block))} :
       /\ made' = made + Len(vs) /\ \E d \in {trimInput(in, made + Len(vs))} : input' = SubSeq(in, d + 1, Len(in)) /\ start' = start + d
       /\ \E b \in {bytes \o PCM(vs)} : \E n \in {drainFullChunks(b)} :
            /\ chunks' = chunks \o [i \in 1..n |-> SubSeq(b, (i - 1) * ChunkBytes + 1, i * ChunkBytes)]
            /\ bytes' = SubSeq(b, n * ChunkBytes + 1, Len(b))
  /\ UNCHANGED <<rate, stopped, ended>>
\* The track ends by itself; it is told once.
notifyEnded == ~ stopped /\ ~ ended /\ ended' = TRUE /\ UNCHANGED <<rate, input, start, total, made, bytes, chunks, stopped, spoken>>
\* stop, with what is left when the input is finished and without when it is
\* given up.
stop(flush) ==
  /\ ~ stopped /\ stopped' = TRUE /\ UNCHANGED <<rate, input, start, total, made, ended, spoken>>
  /\ IF flush /\ bytes # <<>> THEN chunks' = Append(chunks, bytes) /\ bytes' = <<>> ELSE UNCHANGED <<chunks, bytes>>
-----------------------------------------------------------------------------
Blocks == UNION {[1..n -> Samples] : n \in 1..MaxBlock}
Next == (\E block \in Blocks : push(block)) \/ notifyEnded \/ \E f \in BOOLEAN : stop(f)
Spec == Init /\ [][Next]_vars
-----------------------------------------------------------------------------
TypeOK == start + Len(input) = total /\ total = Len(spoken) /\ Len(bytes) < ChunkBytes /\ made \in Nat

\* However the stream was cut into blocks, what was sent and what waits is
\* the resampling of the whole of it.
ResamplesWhole == FlattenSeq(chunks) \o bytes = PCM(resampleLinear(spoken))

\* All chunks but the last are full.
FullChunks == \A i \in 1..Len(chunks) : Len(chunks[i]) = ChunkBytes \/ (i = Len(chunks) /\ stopped /\ Len(chunks[i]) < ChunkBytes)

\* The buffer holds no more than a block and the samples around the next one.
InputIsTrimmed == Len(input) <= 2 + (rate \div TargetRate)
=============================================================================
