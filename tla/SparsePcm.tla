------------------------------ MODULE SparsePcm ------------------------------
(***************************************************************************)
(* Sparse PCM: which frames of a source are stored (sparse-format.ts,      *)
(* sparse-pcm.ts), how decoded blocks become spans (sparse-resolver.ts),   *)
(* spans an index (sparse-store.ts), and an index and its packed payload a *)
(* window of PCM again.  The unit is the frame: sample f + 1 is frame f's  *)
(* PCM and 0 is silence, so offsets count frames, not bytes.               *)
(***************************************************************************)
EXTENDS Naturals, Sequences, FiniteSetsExt, SequencesExt

CONSTANTS Frames,         \* frames of a source
          MaxSpanFrames,  \* frames of MAX_SPAN_BYTES (128 KiB)
          MaxChunkFrames  \* frames of a FLAC chunk (30 seconds)

ASSUME PcmAssumption == /\ Frames \in Nat \ {0}
                        /\ MaxSpanFrames \in Nat \ {0}
                        /\ MaxChunkFrames \in Nat \ {0}

Frame == 0..(Frames - 1)
Silence == 0
Sample(frame) == frame + 1

\* An interval of the timeline and where its frames lie in the packed payload.
Interval == [start : Frame, frames : 1..Frames, at : 0..Frames]
End(interval) == interval.start + interval.frames
PackedEnd(interval) == interval.at + interval.frames
PackedFrames(intervals) == IF intervals = <<>> THEN 0 ELSE PackedEnd(Last(intervals))

\* The numbers of a set, in order.
InOrder(numbers) ==
  [k \in 1..Cardinality(numbers) |->
     CHOOSE f \in numbers : Cardinality({g \in numbers : g < f}) = k - 1]

-----------------------------------------------------------------------------
(* The manifest of a stem object *)

\* Intervals are apart and packed without holes; chunks cover the packed
\* frames exactly, in order.
ValidManifest(manifest) ==
  LET i == manifest.intervals
      c == manifest.chunks
  IN /\ \A k \in DOMAIN i : /\ i[k] \in Interval /\ End(i[k]) <= Frames
                            /\ i[k].at = (IF k = 1 THEN 0 ELSE PackedEnd(i[k - 1]))
                            /\ k > 1 => i[k].start > End(i[k - 1])
     /\ \A k \in DOMAIN c : /\ c[k].frames \in 1..MaxChunkFrames
                            /\ c[k].at = (IF k = 1 THEN 0 ELSE c[k - 1].at + c[k - 1].frames)
     /\ PackedFrames(i) = (IF c = <<>> THEN 0 ELSE Last(c).at + Last(c).frames)

\* The manifest a publisher writes for a set of active frames, in chunks as
\* large as allowed.
RunFrames(active, first) == Min({f \in first..Frames : f \notin active}) - first
ManifestOf(active) ==
  LET starts == InOrder({f \in active : f = 0 \/ f - 1 \notin active})
      runs   == [k \in DOMAIN starts |->
                   [start |-> starts[k], frames |-> RunFrames(active, starts[k]),
                    at |-> Cardinality({f \in active : f < starts[k]})]]
      size   == Cardinality(active)
      chunks == (size + MaxChunkFrames - 1) \div MaxChunkFrames
  IN [intervals |-> runs,
      chunks |-> [k \in 1..chunks |->
                    [at |-> (k - 1) * MaxChunkFrames,
                     frames |-> Min({MaxChunkFrames, size - (k - 1) * MaxChunkFrames})]]]

-----------------------------------------------------------------------------
(* The index of a payload *)

\* An interval that continues the last one extends it.
Coalesce(intervals, next) ==
  IF intervals # <<>> /\ End(Last(intervals)) = next.start
    THEN Append(Front(intervals), [Last(intervals) EXCEPT !.frames = @ + next.frames])
    ELSE Append(intervals, next)

DeriveIndex(manifest) ==
  LET i == manifest.intervals
      derived[n \in 0..Len(i)] == IF n = 0 THEN <<>> ELSE Coalesce(derived[n - 1], i[n])
  IN derived[Len(i)]

\* validateSparsePcmIndex: intervals are apart, offsets contiguous, and the
\* payload has the size they add up to.
ValidIndex(intervals, size) ==
  /\ \A k \in DOMAIN intervals :
       /\ End(intervals[k]) <= Frames
       /\ intervals[k].at = (IF k = 1 THEN 0 ELSE PackedEnd(intervals[k - 1]))
       /\ k > 1 => intervals[k].start > End(intervals[k - 1])
  /\ PackedFrames(intervals) = size

-----------------------------------------------------------------------------
(* Spans of a decoded block *)

IntervalAt(intervals, packed) ==
  CHOOSE k \in DOMAIN intervals : intervals[k].at <= packed /\ packed < PackedEnd(intervals[k])

\* Mutant: a span is not cut to the size the store accepts.
NextSpanWhole(intervals, packed, blockEnd) ==
  LET i == intervals[IntervalAt(intervals, packed)]
      end == Min({blockEnd, PackedEnd(i)})
  IN [start |-> i.start + (packed - i.at), frames |-> end - packed, at |-> packed]

\* mapNextBlock: what of the block that ends at blockEnd the next span takes.
NextSpan(intervals, packed, blockEnd) ==
  LET i == intervals[IntervalAt(intervals, packed)]
      end == Min({blockEnd, PackedEnd(i), packed + MaxSpanFrames})
  IN [start |-> i.start + (packed - i.at), frames |-> end - packed, at |-> packed]

-----------------------------------------------------------------------------
(* Reading a window *)

\* Zero-based index of the first interval that ends after the frame, by bisection.
FirstIntersecting(intervals, frame) ==
  LET n == Len(intervals)
      search[range \in (0..n) \X (0..n)] ==
        LET low == range[1]
            high == range[2]
            middle == low + (high - low) \div 2
        IN IF low >= high THEN low
           ELSE IF End(intervals[middle + 1]) <= frame THEN search[<<middle + 1, high>>]
                                                       ELSE search[<<low, middle>>]
  IN search[<<0, n>>]

\* readSparsePcmWindow: one contiguous slice of the payload, whose pieces are
\* copied over silence.
ReadWindow(intervals, payload, start, count) ==
  LET first  == FirstIntersecting(intervals, start) + 1
      silent == [k \in 1..count |-> Silence]
      Meets(k) == intervals[k].start < start + count
      last == Max({k \in first..Len(intervals) : \A j \in first..k : Meets(j)})
      from == intervals[first].at + (Max({start, intervals[first].start}) - intervals[first].start)
      to   == intervals[last].at + (Min({start + count, End(intervals[last])}) - intervals[last].start)
      slice == SubSeq(payload, from + 1, to)
      Piece(output, k) ==
        LET i  == intervals[k]
            lo == Max({start, i.start})
            hi == Min({start + count, End(i)})
        IN [p \in 1..count |->
              IF p \in (lo - start + 1)..(hi - start)
                THEN slice[i.at + (lo - i.start) - from + (p - (lo - start))] ELSE output[p]]
      copied[k \in (first - 1)..last] == IF k = first - 1 THEN silent ELSE Piece(copied[k - 1], k)
  IN IF first > Len(intervals) \/ ~Meets(first) THEN silent ELSE copied[last]

Packed(active) == [k \in 1..Cardinality(active) |-> Sample(InOrder(active)[k])]
Canonical(active, start, count) ==
  [k \in 1..count |-> IF start + k - 1 \in active THEN Sample(start + k - 1) ELSE Silence]
=============================================================================
