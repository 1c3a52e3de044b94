-------------------------- MODULE RollingVadProofs --------------------------
(***************************************************************************)
(* Proofs about RollingVad: whatever sessions, frames, bundles and         *)
(* warmups, no loud audio is lost, nothing but a residual outlives a call, *)
(* and the recogniser gets neither old audio nor silence beyond a chunk.   *)
(***************************************************************************)
EXTENDS RollingVad, FiniteSetTheorems, SequenceTheorems, TLAPS

-----------------------------------------------------------------------------
\* What sequences are made of.

LEMMA RangeOfEmpty == Range(<<>>) = {}
BY DEF Range

LEMMA RangeOfConcat ==
    ASSUME NEW S, NEW s \in Seq(S), NEW t \in Seq(S)
    PROVE  Range(s \o t) = Range(s) \cup Range(t)
<1> DEFINE st == s \o t
<1>1. /\ st \in Seq(S) /\ Len(st) = Len(s) + Len(t)
      /\ \A k \in 1..Len(s) + Len(t) : st[k] = IF k <= Len(s) THEN s[k] ELSE t[k - Len(s)]
      BY ConcatProperties
<1>2. /\ DOMAIN s = 1..Len(s) /\ DOMAIN t = 1..Len(t) /\ DOMAIN st = 1..Len(st)
      /\ Len(s) \in Nat /\ Len(t) \in Nat
      BY <1>1, LenProperties
<1> HIDE DEF st
<1>3. ASSUME NEW x \in Range(st) PROVE x \in Range(s) \cup Range(t)
      <2>1. PICK k \in 1..Len(s) + Len(t) : x = st[k]
            BY <1>1, <1>2 DEF Range
      <2>2. CASE k <= Len(s)
            <3>1. k \in DOMAIN s /\ x = s[k]
                  BY <1>1, <1>2, <2>1, <2>2
            <3> QED BY <3>1 DEF Range
      <2>3. CASE k > Len(s)
            <3>1. k - Len(s) \in DOMAIN t /\ x = t[k - Len(s)]
                  BY <1>1, <1>2, <2>1, <2>3
            <3> QED BY <3>1 DEF Range
      <2> QED BY <2>1, <2>2, <2>3, <1>2
<1>4. ASSUME NEW x \in Range(s) PROVE x \in Range(st)
      <2>1. PICK k \in 1..Len(s) : x = s[k]
            BY <1>2 DEF Range
      <2>2. k \in 1..Len(s) + Len(t) /\ st[k] = s[k]
            BY <1>1, <1>2
      <2> QED BY <1>1, <1>2, <2>1, <2>2 DEF Range
<1>5. ASSUME NEW x \in Range(t) PROVE x \in Range(st)
      <2>1. PICK k \in 1..Len(t) : x = t[k]
            BY <1>2 DEF Range
      <2>2. k + Len(s) \in 1..Len(s) + Len(t) /\ ~(k + Len(s) <= Len(s)) /\ (k + Len(s)) - Len(s) = k
            BY <1>2
      <2>3. st[k + Len(s)] = t[k]
            BY <1>1, <2>2
      <2> QED BY <1>1, <1>2, <2>1, <2>2, <2>3 DEF Range
<1> QED BY <1>3, <1>4, <1>5 DEF st

LEMMA RangeOfSingle == \A x : Range(<<x>>) = {x}
BY DEF Range

LEMMA RangeOfAppend ==
    ASSUME NEW S, NEW s \in Seq(S), NEW x \in S
    PROVE  Range(Append(s, x)) = Range(s) \cup {x}
<1>1. Append(s, x) = s \o <<x>> /\ <<x>> \in Seq(S)
      BY AppendIsConcat
<1>2. Range(s \o <<x>>) = Range(s) \cup Range(<<x>>)
      BY ONLY <1>1, s \in Seq(S), RangeOfConcat
<1>3. Range(<<x>>) = {x}
      BY RangeOfSingle
<1> QED BY <1>1, <1>2, <1>3

\* A sequence is cut in two without losing anything.
LEMMA RangeOfCut ==
    ASSUME NEW S, NEW s \in Seq(S), NEW n \in 0..Len(s)
    PROVE  /\ SubSeq(s, 1, n) \in Seq(S) /\ Len(SubSeq(s, 1, n)) = n
           /\ SubSeq(s, n + 1, Len(s)) \in Seq(S) /\ Len(SubSeq(s, n + 1, Len(s))) = Len(s) - n
           /\ Range(s) = Range(SubSeq(s, 1, n)) \cup Range(SubSeq(s, n + 1, Len(s)))
<1>1. Len(s) \in Nat /\ n \in Nat /\ n <= Len(s) /\ \A k \in 1..Len(s) : s[k] \in S
      BY LenProperties
<1>2. SubSeq(s, 1, n) \in Seq(S) /\ Len(SubSeq(s, 1, n)) = n
      <2>1. \A k \in 1..n : s[k] \in S
            BY <1>1
      <2> QED BY <1>1, <2>1, SubSeqProperties, 1 <= n \/ n = 0
<1>3. SubSeq(s, n + 1, Len(s)) \in Seq(S) /\ Len(SubSeq(s, n + 1, Len(s))) = Len(s) - n
      <2>1. \A k \in n + 1..Len(s) : s[k] \in S
            BY <1>1
      <2> QED BY <1>1, <2>1, SubSeqProperties, n + 1 <= Len(s) \/ n = Len(s)
<1>4. SubSeq(s, 1, n) \o SubSeq(s, n + 1, Len(s)) = SubSeq(s, 1, Len(s))
      <2>1. 1 \in 1..Len(s) + 1 /\ n \in 1 - 1..Len(s) /\ Len(s) \in n..Len(s)
            BY <1>1
      <2> QED BY <2>1, ConcatAdjacentSubSeq
<1>5. SubSeq(s, 1, Len(s)) = s
      BY SubSeqFull
<1> DEFINE a == SubSeq(s, 1, n)
           b == SubSeq(s, n + 1, Len(s))
<1>6. a \in Seq(S) /\ b \in Seq(S) /\ a \o b = s
      BY <1>2, <1>3, <1>4, <1>5
<1>7. Range(a \o b) = Range(a) \cup Range(b)
      <2> HIDE DEF a, b
      <2> QED BY <1>6, RangeOfConcat
<1> QED BY <1>2, <1>3, <1>6, <1>7

LEMMA NewestType ==
    ASSUME NEW S, NEW s \in Seq(S), NEW n \in Nat
    PROVE  Newest(s, n) \in Seq(S) /\ Range(Newest(s, n)) \subseteq Range(s)
<1> DEFINE m == IF Len(s) > n THEN Len(s) - n ELSE 0
<1>1. m \in 0..Len(s) /\ Newest(s, n) = SubSeq(s, m + 1, Len(s))
      BY LenProperties DEF Newest
<1> HIDE DEF m
<1>2. SubSeq(s, m + 1, Len(s)) \in Seq(S) /\ Range(SubSeq(s, m + 1, Len(s))) \subseteq Range(s)
      BY <1>1, RangeOfCut
<1> QED BY <1>1, <1>2

\* A sequence has at most as many elements as places.
LEMMA RangeIsSmall ==
    ASSUME NEW S, NEW s \in Seq(S)
    PROVE  IsFiniteSet(Range(s)) /\ Cardinality(Range(s)) <= Len(s)
<1>1. Len(s) \in Nat /\ s \in [1..Len(s) -> S]
      BY LenProperties
<1>2. s \in Surjection(1..Len(s), Range(s))
      BY <1>1 DEF Surjection, Range
<1>3. IsFiniteSet(1..Len(s)) /\ Cardinality(1..Len(s)) = Len(s)
      <2>1. ASSUME NEW n \in Nat PROVE IsFiniteSet(1..n) /\ Cardinality(1..n) = n
            <3>1. 1 \in Int /\ n \in Int /\ (IF 1 > n THEN 0 ELSE n - 1 + 1) = n
                  OBVIOUS
            <3>2. IsFiniteSet(1..n) /\ Cardinality(1..n) = (IF 1 > n THEN 0 ELSE n - 1 + 1)
                  BY ONLY <3>1, FS_Interval
            <3> QED BY <3>1, <3>2
      <2> QED BY <1>1, <2>1
<1> QED BY <1>2, <1>3, FS_Surjection

-----------------------------------------------------------------------------
\* The inductive invariant.

Own == rolling[call.sid].cut

Busy == call.at # "idle"

\* What the code joins and hands over: whole chunks, all of them loud.
Voiced(segment) == \A chunk \in Range(segment) : Len(chunk) = ChunkUnits /\ Loud(chunk)
AllVoiced(segments) == \A segment \in Range(segments) : Voiced(segment)

\* A call has a provider, and has handed nothing over yet.
CallHasProvider == Busy => rolling[call.sid].vad \in Bundles /\ out = <<>>

\* The RollingVads are as new but for the one of the call, once it slices.
RollingsRest ==
    \A i \in Sessions :
        /\ rolling[i].cut.closed = <<>>
        /\ ~rolling[i].cut.speaking => rolling[i].cut.segment = <<>>
        /\ i # call.sid \/ call.at \in {"idle", "push"} => rolling[i].cut = Fresh
        /\ call.at = "slice" => rolling[i].cut.buffer = <<>>

\* Only the provider of the call is in a segment or has closed ones.
ProvidersRest ==
    \A g \in Bundles :
        ~Busy \/ provider[g].kind = "silero" \/ g # rolling[call.sid].vad => Rests(provider[g].cut)

EverythingVoiced ==
    /\ \A i \in Sessions : Voiced(rolling[i].cut.segment)
    /\ \A g \in Bundles : Voiced(provider[g].cut.segment) /\ AllVoiced(provider[g].cut.closed)
    /\ AllVoiced(call.found)

\* A loud unit that the slicer was given is still to come, in the open segment,
\* in the residual or in a segment that was closed.
Held == Range(call.view) \cup Units(Own.segment) \cup Range(Own.buffer) \cup UnitsOfAll(call.found)

SoundHeld ==
    /\ call.at \in {"slice", "flush"} => \A u \in Range(call.pcm) : u.loud => u \in Held
    /\ call.at = "flush" => call.view = <<>>

\* All that the call can still hand over, or has: its samples, and less than a
\* chunk of others, which its provider remembered.
Reach == IF Busy THEN Held \cup Units(Vad.cut.segment) \cup UnitsOfAll(Vad.cut.closed) ELSE Submitted

Old == Reach \ Range(call.pcm)

OldIsShort == IsFiniteSet(Old) /\ Cardinality(Old) < ChunkUnits

IInv ==
    /\ TypeOK /\ CallHasProvider /\ RollingsRest /\ ProvidersRest /\ EverythingVoiced
    /\ SoundHeld /\ OldIsShort /\ EverySoundHeard /\ SilenceIsShort

-----------------------------------------------------------------------------
\* The units of segments.

LEMMA UnitsMember ==
    /\ \A segment, u : u \in Units(segment) <=> \E chunk \in Range(segment) : u \in Range(chunk)
    /\ \A segments, u : u \in UnitsOfAll(segments) <=> \E segment \in Range(segments) : u \in Units(segment)
<1>1. ASSUME NEW segment, NEW u
      PROVE  u \in Units(segment) <=> \E chunk \in Range(segment) : u \in Range(chunk)
      BY DEF Units, Range
<1>2. ASSUME NEW segments, NEW u
      PROVE  u \in UnitsOfAll(segments) <=> \E segment \in Range(segments) : u \in Units(segment)
      BY DEF UnitsOfAll, Range
<1> QED BY <1>1, <1>2

LEMMA UnitsOfParts ==
    /\ Units(<<>>) = {} /\ UnitsOfAll(<<>>) = {}
    /\ \A chunk : Units(<<chunk>>) = Range(chunk)
    /\ \A segment : UnitsOfAll(<<segment>>) = Units(segment)
    /\ \A segment \in Segments : \A chunk \in Seq(Unit) :
          Units(Append(segment, chunk)) = Units(segment) \cup Range(chunk)
    /\ \A a, b \in Seq(Segments) : UnitsOfAll(a \o b) = UnitsOfAll(a) \cup UnitsOfAll(b)
<1>1. Units(<<>>) = {} /\ UnitsOfAll(<<>>) = {}
      BY DEF Units, UnitsOfAll
<1>2. ASSUME NEW chunk PROVE Units(<<chunk>>) = Range(chunk)
      <2>1. Range(<<chunk>>) = {chunk}
            BY RangeOfSingle
      <2> QED BY <2>1, UnitsMember
<1>3. ASSUME NEW segment PROVE UnitsOfAll(<<segment>>) = Units(segment)
      <2>1. Range(<<segment>>) = {segment}
            BY RangeOfSingle
      <2>2. ASSUME NEW u PROVE u \in UnitsOfAll(<<segment>>) <=> u \in Units(segment)
            BY <2>1, UnitsMember, Zenon
      <2> QED BY <2>2
<1>4. ASSUME NEW segment \in Segments, NEW chunk \in Seq(Unit)
      PROVE  Units(Append(segment, chunk)) = Units(segment) \cup Range(chunk)
      <2>1. Range(Append(segment, chunk)) = Range(segment) \cup {chunk}
            BY RangeOfAppend DEF Segments
      <2> QED BY <2>1, UnitsMember
<1>5. ASSUME NEW a \in Seq(Segments), NEW b \in Seq(Segments)
      PROVE  UnitsOfAll(a \o b) = UnitsOfAll(a) \cup UnitsOfAll(b)
      <2>1. Range(a \o b) = Range(a) \cup Range(b)
            BY RangeOfConcat
      <2> QED BY <2>1, UnitsMember
<1> QED BY <1>1, <1>2, <1>3, <1>4, <1>5

LEMMA VoicedParts ==
    /\ Voiced(<<>>) /\ AllVoiced(<<>>)
    /\ \A segment : Voiced(segment) => AllVoiced(<<segment>>)
    /\ \A segment \in Segments : \A chunk \in Seq(Unit) :
          Voiced(segment) /\ Len(chunk) = ChunkUnits /\ Loud(chunk) => Voiced(Append(segment, chunk))
    /\ \A a, b \in Seq(Segments) : AllVoiced(a \o b) <=> AllVoiced(a) /\ AllVoiced(b)
<1>1. Voiced(<<>>) /\ AllVoiced(<<>>)
      BY RangeOfEmpty DEF Voiced, AllVoiced
<1>2. ASSUME NEW segment, Voiced(segment) PROVE AllVoiced(<<segment>>)
      <2>1. Range(<<segment>>) = {segment}
            BY RangeOfSingle
      <2> QED BY <1>2, <2>1 DEF AllVoiced
<1>3. ASSUME NEW segment \in Segments, NEW chunk \in Seq(Unit),
             Voiced(segment), Len(chunk) = ChunkUnits, Loud(chunk)
      PROVE  Voiced(Append(segment, chunk))
      <2>1. Range(Append(segment, chunk)) = Range(segment) \cup {chunk}
            BY RangeOfAppend DEF Segments
      <2> QED BY <1>3, <2>1 DEF Voiced
<1>4. ASSUME NEW a \in Seq(Segments), NEW b \in Seq(Segments)
      PROVE  AllVoiced(a \o b) <=> AllVoiced(a) /\ AllVoiced(b)
      <2>1. Range(a \o b) = Range(a) \cup Range(b)
            BY RangeOfConcat
      <2> QED BY <2>1 DEF AllVoiced
<1> QED BY <1>1, <1>2, <1>3, <1>4

LEMMA NonEmptyParts ==
    ASSUME NEW segment \in Segments, NEW buffer \in Seq(Unit)
    PROVE  /\ NonEmpty(segment) \in Seq(Segments) /\ UnitsOfAll(NonEmpty(segment)) = Units(segment)
           /\ Voiced(segment) => AllVoiced(NonEmpty(segment))
           /\ NonEmpty(NonEmpty(buffer)) \in Seq(Segments)
           /\ UnitsOfAll(NonEmpty(NonEmpty(buffer))) = Range(buffer)
           /\ \A s \in Range(NonEmpty(NonEmpty(buffer))) : s = <<buffer>>
<1>3. /\ NonEmpty(segment) \in Seq(Segments) /\ UnitsOfAll(NonEmpty(segment)) = Units(segment)
      /\ Voiced(segment) => AllVoiced(NonEmpty(segment))
      <2>1. CASE segment = <<>>
            <3>1. NonEmpty(segment) = <<>>
                  BY <2>1 DEF NonEmpty
            <3>2. UnitsOfAll(<<>>) = {} /\ Units(<<>>) = {} /\ AllVoiced(<<>>)
                  BY UnitsOfParts, VoicedParts
            <3>3. <<>> \in Seq(Segments)
                  OBVIOUS
            <3> QED BY <2>1, <3>1, <3>2, <3>3, Zenon
      <2>2. CASE segment # <<>>
            <3>1. NonEmpty(segment) = <<segment>> /\ <<segment>> \in Seq(Segments)
                  BY <2>2 DEF NonEmpty
            <3>2. UnitsOfAll(<<segment>>) = Units(segment) /\ (Voiced(segment) => AllVoiced(<<segment>>))
                  BY UnitsOfParts, VoicedParts
            <3> QED BY <3>1, <3>2
      <2> QED BY <2>1, <2>2
<1>4. /\ NonEmpty(NonEmpty(buffer)) \in Seq(Segments)
      /\ UnitsOfAll(NonEmpty(NonEmpty(buffer))) = Range(buffer)
      /\ \A s \in Range(NonEmpty(NonEmpty(buffer))) : s = <<buffer>>
      <2>1. CASE buffer = <<>>
            <3>1. NonEmpty(NonEmpty(buffer)) = <<>>
                  BY <2>1 DEF NonEmpty
            <3>2. UnitsOfAll(<<>>) = {} /\ Range(<<>>) = {}
                  BY UnitsOfParts, RangeOfEmpty
            <3>3. <<>> \in Seq(Segments)
                  OBVIOUS
            <3> QED BY <2>1, <3>1, <3>2, <3>3, Zenon
      <2>2. CASE buffer # <<>>
            <3>1. NonEmpty(buffer) = <<buffer>> /\ <<buffer>> # <<>>
                  BY <2>2 DEF NonEmpty
            <3>2. NonEmpty(NonEmpty(buffer)) = <<<<buffer>>>>
                  BY <3>1 DEF NonEmpty
            <3>3. <<buffer>> \in Segments
                  BY DEF Segments
            <3>4. <<<<buffer>>>> \in Seq(Segments)
                  BY <3>3
            <3>5. Range(<<<<buffer>>>>) = {<<buffer>>}
                  BY RangeOfSingle
            <3>6. UnitsOfAll(<<<<buffer>>>>) = Units(<<buffer>>) /\ Units(<<buffer>>) = Range(buffer)
                  BY UnitsOfParts
            <3> QED BY <3>2, <3>4, <3>5, <3>6
      <2> QED BY <2>1, <2>2
<1> QED BY <1>3, <1>4

-----------------------------------------------------------------------------
\* What one chunk does to a cutter.

LEMMA CutChunkFields ==
    ASSUME NEW cut \in Cuts, NEW chunk \in Seq(Unit)
    PROVE  /\ CutChunk(cut, chunk) \in Cuts
           /\ CutChunk(cut, chunk).buffer = cut.buffer
           /\ CutChunk(cut, chunk).closed = cut.closed
           /\ CutChunk(cut, chunk).speaking = Loud(chunk)
           /\ CutChunk(cut, chunk).segment =
                IF Loud(chunk) THEN Append(IF cut.speaking THEN cut.segment ELSE <<>>, chunk)
                ELSE IF cut.speaking THEN <<>> ELSE cut.segment
<1> DEFINE grown == Append(IF cut.speaking THEN cut.segment ELSE <<>>, chunk)
           left == IF cut.speaking THEN <<>> ELSE cut.segment
<1>1. cut.segment \in Segments /\ <<>> \in Segments
      BY DEF Cuts, Segments
<1>2. grown \in Segments
      <2>1. (IF cut.speaking THEN cut.segment ELSE <<>>) \in Segments
            BY <1>1
      <2> QED BY <2>1, AppendProperties DEF Segments
<1>3. left \in Segments
      BY <1>1
<1>4. CutChunk(cut, chunk) =
        IF Loud(chunk) THEN [cut EXCEPT !.speaking = TRUE, !.segment = grown]
        ELSE [cut EXCEPT !.speaking = FALSE, !.segment = left]
      BY DEF CutChunk
<1>5. Loud(chunk) \in BOOLEAN
      BY DEF Loud
<1> HIDE DEF grown, left
<1>6. CASE Loud(chunk)
      <2>1. CutChunk(cut, chunk) = [cut EXCEPT !.speaking = TRUE, !.segment = grown]
            BY <1>4, <1>6
      <2> QED BY <1>2, <1>6, <2>1 DEF Cuts, grown
<1>7. CASE ~Loud(chunk)
      <2>1. CutChunk(cut, chunk) = [cut EXCEPT !.speaking = FALSE, !.segment = left]
            BY <1>4, <1>7
      <2>2. (Loud(chunk) <=> FALSE) /\ Loud(chunk) = FALSE
            BY <1>5, <1>7
      <2> QED BY <1>3, <2>2, <2>1 DEF Cuts, left
<1> QED BY <1>6, <1>7

LEMMA FlushedFields ==
    ASSUME NEW cut \in Cuts
    PROVE  /\ Flushed(cut) \in Cuts /\ Flushed(cut).buffer = cut.buffer
           /\ Flushed(cut).speaking = FALSE /\ Flushed(cut).segment = <<>> /\ Flushed(cut).closed = <<>>
<1>1. ASSUME NEW r, NEW x \in Seq(Unit), NEW b \in Seq(Unit), NEW no \in BOOLEAN,
             NEW s \in Segments, NEW c \in Seq(Segments),
             r = [buffer |-> b, speaking |-> no, segment |-> s, closed |-> c]
      PROVE  [r EXCEPT !.buffer = x] = [buffer |-> x, speaking |-> no, segment |-> s, closed |-> c]
      BY <1>1
<1>2. ASSUME NEW x \in Seq(Unit), NEW no \in BOOLEAN, NEW s \in Segments, NEW c \in Seq(Segments)
      PROVE  [buffer |-> x, speaking |-> no, segment |-> s, closed |-> c] \in Cuts
      BY DEF Cuts
<1> DEFINE no == FALSE
<1>3. /\ cut.buffer \in Seq(Unit) /\ <<>> \in Segments /\ <<>> \in Seq(Segments) /\ <<>> \in Seq(Unit)
      /\ no \in BOOLEAN
      BY DEF Cuts, Segments
<1>4. Fresh = [buffer |-> <<>>, speaking |-> no, segment |-> <<>>, closed |-> <<>>]
      BY DEF Fresh
<1> HIDE DEF no
<1>5. Flushed(cut) = [buffer |-> cut.buffer, speaking |-> no, segment |-> <<>>, closed |-> <<>>]
      BY <1>1, <1>3, <1>4 DEF Flushed
<1>6. Flushed(cut) \in Cuts
      BY <1>2, <1>3, <1>5
<1>7. /\ Flushed(cut).buffer = cut.buffer /\ Flushed(cut).speaking = no
      /\ Flushed(cut).segment = <<>> /\ Flushed(cut).closed = <<>>
      BY <1>5
<1> QED BY <1>6, <1>7 DEF no

\* No unit of the chunk or of the segment appears from nowhere, no loud one is
\* lost, and what is joined or closed consists of loud chunks.
LEMMA CutChunkKeeps ==
    ASSUME NEW cut \in Cuts, NEW chunk \in Seq(Unit), Len(chunk) = ChunkUnits, Voiced(cut.segment)
    PROVE  LET new == CutChunk(cut, chunk) closes == Closes(cut, chunk) IN
           /\ closes \in Seq(Segments) /\ AllVoiced(closes) /\ Voiced(new.segment)
           /\ Units(new.segment) \cup UnitsOfAll(closes) \subseteq Units(cut.segment) \cup Range(chunk)
           /\ (~cut.speaking => cut.segment = <<>>) =>
                 /\ ~new.speaking => new.segment = <<>>
                 /\ Units(cut.segment) \subseteq Units(new.segment) \cup UnitsOfAll(closes)
                 /\ \A u \in Range(chunk) : u.loud => u \in Units(new.segment)
<1> DEFINE new == CutChunk(cut, chunk)
           closes == Closes(cut, chunk)
           base == IF cut.speaking THEN cut.segment ELSE <<>>
<1>1. cut.segment \in Segments /\ <<>> \in Segments /\ base \in Segments
      BY DEF Cuts, Segments
<1>2. /\ new.speaking = Loud(chunk)
      /\ Loud(chunk) => new.segment = Append(base, chunk)
      /\ ~Loud(chunk) => new.segment = IF cut.speaking THEN <<>> ELSE cut.segment
      BY CutChunkFields
<1>3. Voiced(base) /\ Units(base) \subseteq Units(cut.segment)
      BY VoicedParts, UnitsOfParts
<1>4. closes = IF ~Loud(chunk) /\ cut.speaking /\ cut.segment # <<>> THEN <<cut.segment>> ELSE <<>>
      BY DEF Closes
<1>5. /\ AllVoiced(<<cut.segment>>) /\ UnitsOfAll(<<cut.segment>>) = Units(cut.segment)
      /\ <<cut.segment>> \in Seq(Segments) /\ <<>> \in Seq(Segments)
      BY <1>1, VoicedParts, UnitsOfParts
<1>6. Units(<<>>) = {} /\ UnitsOfAll(<<>>) = {} /\ Voiced(<<>>) /\ AllVoiced(<<>>)
      BY UnitsOfParts, VoicedParts
<1>7. \A u \in Range(chunk) : u.loud => Loud(chunk)
      BY DEF Range, Loud
<1> HIDE DEF new, closes
<1>8. CASE Loud(chunk)
      <2>1. closes = <<>>
            BY <1>4, <1>8
      <2>2. Units(Append(base, chunk)) = Units(base) \cup Range(chunk) /\ Voiced(Append(base, chunk))
            BY <1>1, <1>3, <1>8, UnitsOfParts, VoicedParts
      <2>3. new.segment = Append(base, chunk) /\ new.speaking
            BY <1>2, <1>8
      <2>4. (~cut.speaking => cut.segment = <<>>) => base = cut.segment
            OBVIOUS
      <2> HIDE DEF base
      <2> QED BY <1>3, <1>5, <1>6, <2>1, <2>2, <2>3, <2>4 DEF new, closes
<1>9. CASE ~Loud(chunk)
      <2>1. new.segment = IF cut.speaking THEN <<>> ELSE cut.segment
            BY <1>2, <1>9
      <2>2. closes = IF cut.speaking /\ cut.segment # <<>> THEN <<cut.segment>> ELSE <<>>
            BY <1>4, <1>9
      <2>3. closes \in Seq(Segments) /\ AllVoiced(closes) /\ Voiced(new.segment)
            BY <1>5, <1>6, <2>1, <2>2
      <2>4. Units(new.segment) \cup UnitsOfAll(closes) = Units(cut.segment)
            BY <1>5, <1>6, <2>1, <2>2
      <2>5. (~cut.speaking => cut.segment = <<>>) => new.segment = <<>>
            BY <2>1
      <2> QED BY <1>7, <1>9, <2>3, <2>4, <2>5 DEF new, closes
<1> QED BY <1>8, <1>9

-----------------------------------------------------------------------------
\* What an update of the state does to its parts.

LEMMA FreshFacts ==
    /\ Fresh \in Cuts /\ Rests(Fresh) /\ Len(Fresh.buffer) < ChunkUnits
    /\ Fresh.buffer = <<>> /\ Fresh.segment = <<>> /\ Fresh.closed = <<>> /\ ~Fresh.speaking
<1>1. /\ Fresh.buffer = <<>> /\ Fresh.segment = <<>> /\ Fresh.closed = <<>> /\ Fresh.speaking = FALSE
      BY DEF Fresh
<1>2. Fresh \in Cuts
      BY DEF Fresh, Cuts, Segments
<1>3. Len(Fresh.buffer) < ChunkUnits
      BY <1>1, VadAssumption
<1> QED BY <1>1, <1>2, <1>3 DEF Rests

LEMMA ProviderUpdate ==
    ASSUME TypeOK, NEW g \in Bundles, NEW c \in Cuts, provider' = [provider EXCEPT ![g].cut = c]
    PROVE  /\ provider' \in [Bundles -> [kind : Kinds, cut : Cuts]]
           /\ \A h \in Bundles : /\ provider'[h].kind = provider[h].kind
                                /\ provider'[h].cut = IF h = g THEN c ELSE provider[h].cut
<1>1. provider \in [Bundles -> [kind : Kinds, cut : Cuts]]
      BY DEF TypeOK
<1>2. [provider[g] EXCEPT !.cut = c] = [kind |-> provider[g].kind, cut |-> c]
      BY <1>1
<1>3. \A h \in Bundles : provider'[h] = IF h = g THEN [kind |-> provider[g].kind, cut |-> c] ELSE provider[h]
      BY <1>1, <1>2
<1>4. provider' \in [Bundles -> [kind : Kinds, cut : Cuts]]
      BY <1>1, <1>2
<1> QED BY <1>3, <1>4

LEMMA RollingUpdate ==
    ASSUME TypeOK, NEW i \in Sessions, NEW c \in Cuts, rolling' = [rolling EXCEPT ![i].cut = c]
    PROVE  /\ rolling' \in [Sessions -> [vad : Bundles \cup {NoVad}, cut : Cuts]]
           /\ \A j \in Sessions : /\ rolling'[j].vad = rolling[j].vad
                                 /\ rolling'[j].cut = IF j = i THEN c ELSE rolling[j].cut
<1>1. rolling \in [Sessions -> [vad : Bundles \cup {NoVad}, cut : Cuts]]
      BY DEF TypeOK
<1>2. [rolling[i] EXCEPT !.cut = c] = [vad |-> rolling[i].vad, cut |-> c]
      BY <1>1
<1>3. \A j \in Sessions : rolling'[j] = IF j = i THEN [vad |-> rolling[i].vad, cut |-> c] ELSE rolling[j]
      BY <1>1, <1>2
<1>4. rolling' \in [Sessions -> [vad : Bundles \cup {NoVad}, cut : Cuts]]
      BY <1>1, <1>2
<1> QED BY <1>3, <1>4

\* What a call that is under way works on.
LEMMA AtWork ==
    ASSUME TypeOK, CallHasProvider, Busy
    PROVE  /\ call.sid \in Sessions /\ rolling[call.sid].vad \in Bundles /\ out = <<>>
           /\ Own \in Cuts /\ Vad.cut \in Cuts /\ Vad.kind \in Kinds
           /\ call.view \in Seq(Unit) /\ call.pcm \in Seq(Unit) /\ call.found \in Seq(Segments)
<1>1. call.sid \in Sessions /\ rolling[call.sid].vad \in Bundles /\ out = <<>>
      BY DEF TypeOK, CallHasProvider
<1>2. rolling[call.sid].cut \in Cuts /\ provider[rolling[call.sid].vad] \in [kind : Kinds, cut : Cuts]
      BY <1>1 DEF TypeOK
<1>3. call.view \in Seq(Unit) /\ call.pcm \in Seq(Unit) /\ call.found \in Seq(Segments)
      BY DEF TypeOK
<1> QED BY <1>1, <1>2, <1>3 DEF Own, Vad

\* The loops take whole chunks.
LEMMA NextChunkFacts ==
    ASSUME call.view \in Seq(Unit), Len(call.view) >= ChunkUnits
    PROVE  /\ NextChunk \in Seq(Unit) /\ Len(NextChunk) = ChunkUnits /\ AfterChunk \in Seq(Unit)
           /\ Range(call.view) = Range(NextChunk) \cup Range(AfterChunk)
<1>1. ChunkUnits \in 0..Len(call.view)
      BY VadAssumption, LenProperties
<1> QED BY <1>1, RangeOfCut DEF NextChunk, AfterChunk

\* What does not reach further stays short.
LEMMA OldShrinks ==
    ASSUME NEW S, NEW T, IsFiniteSet(S), Cardinality(S) < ChunkUnits, T \subseteq S
    PROVE  IsFiniteSet(T) /\ Cardinality(T) < ChunkUnits
<1>1. IsFiniteSet(T) /\ Cardinality(T) <= Cardinality(S)
      BY FS_Subset
<1>2. Cardinality(T) \in Nat /\ Cardinality(S) \in Nat
      BY <1>1, FS_CardinalityType
<1> QED BY <1>1, <1>2, VadAssumption

-----------------------------------------------------------------------------
\* One lemma per action.

LEMMA InitInvariant == Init => IInv
<1> SUFFICES ASSUME Init PROVE IInv
    OBVIOUS
<1>1. call.sid \in Sessions
      BY VadAssumption DEF Init
<1>2. /\ call = [at |-> "idle", sid |-> call.sid, pcm |-> <<>>, view |-> <<>>, found |-> <<>>]
      /\ out = <<>> /\ frames = 0 /\ bundle = 0
      BY DEF Init
<1>3. \A i \in Sessions : rolling[i].cut = Fresh /\ rolling[i].vad = NoVad
      BY DEF Init
<1>4. \A g \in Bundles : provider[g].cut = Fresh
      BY DEF Init
<1>5. TypeOK
      <2>1. bundle \in Bundles /\ frames \in 0..MaxFrames
            BY <1>2, VadAssumption DEF Bundles
      <2>2. provider \in [Bundles -> [kind : Kinds, cut : Cuts]]
            BY FreshFacts DEF Init
      <2>3. rolling \in [Sessions -> [vad : Bundles \cup {NoVad}, cut : Cuts]]
            BY FreshFacts DEF Init
      <2>4. call \in [at : {"idle", "push", "slice", "flush"}, sid : Sessions,
                     pcm : Seq(Unit), view : Seq(Unit), found : Seq(Segments)]
            <3> DEFINE i == call.sid
            <3>1. i \in Sessions /\ call = [at |-> "idle", sid |-> i, pcm |-> <<>>, view |-> <<>>, found |-> <<>>]
                  BY <1>1, <1>2
            <3> HIDE DEF i
            <3> QED BY <3>1
      <2>5. out \in Seq(Segments)
            BY <1>2
      <2> QED BY <2>1, <2>2, <2>3, <2>4, <2>5, <1>3, <1>4, FreshFacts DEF TypeOK
<1>6. ~Busy /\ call.at = "idle"
      BY <1>2 DEF Busy
<1>7. CallHasProvider /\ RollingsRest /\ ProvidersRest /\ SoundHeld
      BY <1>3, <1>4, <1>6, FreshFacts DEF CallHasProvider, RollingsRest, ProvidersRest, SoundHeld
<1>8. EverythingVoiced
      BY <1>2, <1>3, <1>4, FreshFacts, VoicedParts DEF EverythingVoiced
<1>9. OldIsShort
      <2>1. Submitted = {}
            BY <1>2, UnitsOfParts DEF Submitted
      <2>2. Old = {}
            BY <1>6, <2>1 DEF Old, Reach
      <2> QED BY <2>2, FS_EmptySet, VadAssumption DEF OldIsShort
<1>10. EverySoundHeard
      BY <1>2, RangeOfEmpty DEF EverySoundHeard
<1>11. SilenceIsShort
      BY <1>2 DEF SilenceIsShort
<1> QED BY <1>5, <1>7, <1>8, <1>9, <1>10, <1>11 DEF IInv

LEMMA ProviderChunkStep == IInv /\ ProviderChunk => IInv'
<1> SUFFICES ASSUME IInv, ProviderChunk PROVE IInv'
    OBVIOUS
<1> DEFINE g == rolling[call.sid].vad
           new == CutChunk(Vad.cut, NextChunk)
           closes == Closes(Vad.cut, NextChunk)
<1>1. TypeOK /\ CallHasProvider /\ RollingsRest /\ ProvidersRest /\ EverythingVoiced /\ OldIsShort
      BY DEF IInv
<1>2. Busy /\ call.at = "push" /\ Vad.kind = "energy" /\ Len(call.view) >= ChunkUnits
      BY DEF ProviderChunk, Busy
<1>3. /\ call.sid \in Sessions /\ g \in Bundles /\ out = <<>> /\ Own \in Cuts /\ Vad.cut \in Cuts
      /\ call.view \in Seq(Unit) /\ call.found \in Seq(Segments)
      BY <1>1, <1>2, AtWork
<1>4. /\ NextChunk \in Seq(Unit) /\ Len(NextChunk) = ChunkUnits /\ AfterChunk \in Seq(Unit)
      /\ Range(call.view) = Range(NextChunk) \cup Range(AfterChunk)
      BY <1>2, <1>3, NextChunkFacts
<1>5. Vad.cut = provider[g].cut /\ Vad.kind = provider[g].kind
      BY DEF Vad
<1>6. Voiced(Vad.cut.segment)
      BY <1>1, <1>3, <1>5 DEF EverythingVoiced
<1>7. /\ new \in Cuts /\ new.buffer = Vad.cut.buffer /\ new.closed = Vad.cut.closed
      BY <1>3, <1>4, CutChunkFields
<1>8. /\ closes \in Seq(Segments) /\ AllVoiced(closes) /\ Voiced(new.segment)
      /\ Units(new.segment) \cup UnitsOfAll(closes) \subseteq Units(Vad.cut.segment) \cup Range(NextChunk)
      BY <1>3, <1>4, <1>6, CutChunkKeeps
<1>9. /\ provider' = [provider EXCEPT ![g].cut = new]
      /\ call' = [call EXCEPT !.view = AfterChunk, !.found = call.found \o closes]
      /\ UNCHANGED <<bundle, rolling, out, frames>>
      BY <1>5 DEF ProviderChunk
<1> HIDE DEF new, closes
<1>10. call.found \o closes \in Seq(Segments)
      BY <1>3, <1>8
<1>11. /\ call'.at = call.at /\ call'.sid = call.sid /\ call'.pcm = call.pcm
       /\ call'.view = AfterChunk /\ call'.found = call.found \o closes
       /\ call' \in [at : {"idle", "push", "slice", "flush"}, sid : Sessions,
                     pcm : Seq(Unit), view : Seq(Unit), found : Seq(Segments)]
      BY <1>1, <1>4, <1>9, <1>10 DEF TypeOK
<1>12. /\ provider' \in [Bundles -> [kind : Kinds, cut : Cuts]]
       /\ \A h \in Bundles : /\ provider'[h].kind = provider[h].kind
                            /\ provider'[h].cut = IF h = g THEN new ELSE provider[h].cut
      BY <1>1, <1>3, <1>7, <1>9, ProviderUpdate
<1> HIDE DEF g
<1>13. Busy' /\ Own' = Own /\ (rolling[call.sid].vad)' = g /\ Vad'.cut = new /\ Vad'.kind = Vad.kind
      BY <1>2, <1>3, <1>5, <1>9, <1>11, <1>12 DEF Busy, Own, Vad, g
<1>14. TypeOK'
      BY <1>1, <1>3, <1>5, <1>7, <1>9, <1>11, <1>12 DEF TypeOK
<1>15. CallHasProvider'
      BY <1>3, <1>9, <1>13 DEF CallHasProvider
<1>16. RollingsRest'
      BY <1>1, <1>9, <1>11 DEF RollingsRest
<1>17. ProvidersRest'
      BY <1>1, <1>2, <1>5, <1>12, <1>13 DEF ProvidersRest, g
<1>18. EverythingVoiced'
      <2>1. AllVoiced(call.found \o closes)
            BY <1>1, <1>3, <1>8, VoicedParts DEF EverythingVoiced
      <2>2. \A h \in Bundles : Voiced(provider'[h].cut.segment) /\ AllVoiced(provider'[h].cut.closed)
            BY <1>1, <1>3, <1>5, <1>7, <1>8, <1>12 DEF EverythingVoiced
      <2> QED BY <1>1, <1>9, <1>11, <2>1, <2>2 DEF EverythingVoiced, Voiced, AllVoiced
<1>19. OldIsShort'
      <2>1. UnitsOfAll(call.found \o closes) = UnitsOfAll(call.found) \cup UnitsOfAll(closes)
            BY <1>3, <1>8, UnitsOfParts
      <2>2. Reach' = Range(AfterChunk) \cup Units(Own.segment) \cup Range(Own.buffer)
                       \cup UnitsOfAll(call.found \o closes) \cup Units(new.segment) \cup UnitsOfAll(Vad.cut.closed)
            BY <1>7, <1>11, <1>13 DEF Reach, Held
      <2>3. Reach = Range(call.view) \cup Units(Own.segment) \cup Range(Own.buffer)
                       \cup UnitsOfAll(call.found) \cup Units(Vad.cut.segment) \cup UnitsOfAll(Vad.cut.closed)
            BY <1>2 DEF Reach, Held
      <2>4. Reach' \subseteq Reach
            BY <1>4, <1>8, <2>1, <2>2, <2>3
      <2>5. Old' \subseteq Old
            BY <1>11, <2>4 DEF Old
      <2> QED BY <1>1, <2>5, OldShrinks DEF OldIsShort
<1>20. SoundHeld' /\ EverySoundHeard' /\ SilenceIsShort'
      BY <1>2, <1>11 DEF SoundHeld, EverySoundHeard, SilenceIsShort
<1> QED BY <1>14, <1>15, <1>16, <1>17, <1>18, <1>19, <1>20 DEF IInv

LEMMA ProviderEndsStep == IInv /\ ProviderEnds => IInv'
<1> SUFFICES ASSUME IInv, ProviderEnds PROVE IInv'
    OBVIOUS
<1> DEFINE g == rolling[call.sid].vad
           all == Vad.cut.closed \o call.found
           new == [Vad.cut EXCEPT !.buffer = call.view, !.closed = all]
<1>1. TypeOK /\ CallHasProvider /\ RollingsRest /\ ProvidersRest /\ EverythingVoiced /\ OldIsShort
      BY DEF IInv
<1>2. Busy /\ call.at = "push" /\ Vad.kind = "energy" /\ Len(call.view) < ChunkUnits
      BY DEF ProviderEnds, Busy
<1>3. /\ call.sid \in Sessions /\ g \in Bundles /\ out = <<>> /\ Own \in Cuts /\ Vad.cut \in Cuts
      /\ call.view \in Seq(Unit) /\ call.pcm \in Seq(Unit) /\ call.found \in Seq(Segments)
      BY <1>1, <1>2, AtWork
<1>4. Vad.cut = provider[g].cut /\ Vad.kind = provider[g].kind
      BY DEF Vad
<1>5. Vad.cut.closed \in Seq(Segments) /\ all \in Seq(Segments)
      <2>1. Vad.cut.closed \in Seq(Segments)
            BY <1>3 DEF Cuts
      <2> QED BY <1>3, <2>1, ConcatProperties
<1>6. /\ provider' = [provider EXCEPT ![g].cut = new]
      /\ call' = [call EXCEPT !.at = "slice", !.view = call.pcm]
      /\ UNCHANGED <<bundle, rolling, out, frames>>
      <2>1. provider' = [provider EXCEPT ![g].cut = Pushed(provider[g].cut, call.view, call.found)]
            BY DEF ProviderEnds
      <2>2. new = Pushed(provider[g].cut, call.view, call.found)
            BY <1>4 DEF Pushed
      <2>3. call' = [call EXCEPT !.at = "slice", !.view = call.pcm] /\ UNCHANGED <<bundle, rolling, out, frames>>
            BY DEF ProviderEnds
      <2> QED BY <2>1, <2>2, <2>3, Zenon
<1>7. /\ AllVoiced(all)
      /\ UnitsOfAll(all) = UnitsOfAll(Vad.cut.closed) \cup UnitsOfAll(call.found)
      BY <1>1, <1>3, <1>4, <1>5, UnitsOfParts, VoicedParts DEF EverythingVoiced
<1> HIDE DEF all
<1>8. /\ new \in Cuts /\ new.buffer = call.view /\ new.closed = all
      /\ new.segment = Vad.cut.segment /\ new.speaking = Vad.cut.speaking
      BY <1>3, <1>5 DEF Cuts
<1> HIDE DEF new
<1>11. /\ call'.at = "slice" /\ call'.sid = call.sid /\ call'.pcm = call.pcm
       /\ call'.view = call.pcm /\ call'.found = call.found
       /\ call' \in [at : {"idle", "push", "slice", "flush"}, sid : Sessions,
                     pcm : Seq(Unit), view : Seq(Unit), found : Seq(Segments)]
      BY <1>1, <1>6 DEF TypeOK
<1>12. /\ provider' \in [Bundles -> [kind : Kinds, cut : Cuts]]
       /\ \A h \in Bundles : /\ provider'[h].kind = provider[h].kind
                            /\ provider'[h].cut = IF h = g THEN new ELSE provider[h].cut
      BY <1>1, <1>3, <1>6, <1>8, ProviderUpdate
<1> HIDE DEF g
<1>13. Busy' /\ Own' = Own /\ (rolling[call.sid].vad)' = g /\ Vad'.cut = new /\ Vad'.kind = Vad.kind
      BY <1>2, <1>3, <1>4, <1>6, <1>11, <1>12 DEF Busy, Own, Vad, g
<1>14. TypeOK'
      BY <1>1, <1>2, <1>3, <1>6, <1>8, <1>11, <1>12 DEF TypeOK
<1>15. CallHasProvider'
      BY <1>3, <1>6, <1>13 DEF CallHasProvider
<1>16. RollingsRest'
      BY <1>1, <1>2, <1>6, <1>11, FreshFacts DEF RollingsRest
<1>17. ProvidersRest'
      BY <1>1, <1>2, <1>4, <1>12, <1>13 DEF ProvidersRest, Busy, g
<1>18. EverythingVoiced'
      <2>2. \A h \in Bundles : Voiced(provider'[h].cut.segment) /\ AllVoiced(provider'[h].cut.closed)
            BY <1>1, <1>3, <1>4, <1>7, <1>8, <1>12 DEF EverythingVoiced
      <2> QED BY <1>1, <1>6, <1>11, <2>2 DEF EverythingVoiced, Voiced, AllVoiced
<1>19. OldIsShort'
      <2>1. Reach' = Range(call.pcm) \cup Units(Own.segment) \cup Range(Own.buffer)
                       \cup UnitsOfAll(call.found) \cup Units(Vad.cut.segment) \cup UnitsOfAll(all)
            BY <1>8, <1>11, <1>13 DEF Reach, Held
      <2>2. Reach = Range(call.view) \cup Units(Own.segment) \cup Range(Own.buffer)
                       \cup UnitsOfAll(call.found) \cup Units(Vad.cut.segment) \cup UnitsOfAll(Vad.cut.closed)
            BY <1>2 DEF Reach, Held
      <2>3. Old' \subseteq Old
            BY <1>7, <1>11, <2>1, <2>2 DEF Old
      <2> QED BY <1>1, <2>3, OldShrinks DEF OldIsShort
<1>20. SoundHeld' /\ EverySoundHeard' /\ SilenceIsShort'
      <2>1. Held' = Range(call.pcm) \cup Units(Own.segment) \cup Range(Own.buffer) \cup UnitsOfAll(call.found)
            BY <1>11, <1>13 DEF Held
      <2> QED BY <1>11, <2>1 DEF SoundHeld, EverySoundHeard, SilenceIsShort
<1> QED BY <1>14, <1>15, <1>16, <1>17, <1>18, <1>19, <1>20 DEF IInv

LEMMA SileroPushStep == IInv /\ SileroPush => IInv'
<1> SUFFICES ASSUME IInv, SileroPush PROVE IInv'
    OBVIOUS
<1>1. TypeOK /\ CallHasProvider /\ RollingsRest /\ ProvidersRest /\ EverythingVoiced /\ OldIsShort
      BY DEF IInv
<1>2. Busy /\ call.at = "push"
      BY DEF SileroPush, Busy
<1>3. /\ call' = [call EXCEPT !.at = "slice", !.view = call.pcm]
      /\ UNCHANGED <<bundle, provider, rolling, out, frames>>
      BY DEF SileroPush
<1>4. /\ call'.at = "slice" /\ call'.sid = call.sid /\ call'.pcm = call.pcm
      /\ call'.view = call.pcm /\ call'.found = call.found
      /\ call' \in [at : {"idle", "push", "slice", "flush"}, sid : Sessions,
                    pcm : Seq(Unit), view : Seq(Unit), found : Seq(Segments)]
      BY <1>1, <1>3 DEF TypeOK
<1>5. Busy' /\ Own' = Own /\ Vad' = Vad
      BY <1>3, <1>4 DEF Busy, Own, Vad
<1>6. TypeOK'
      BY <1>1, <1>3, <1>4 DEF TypeOK
<1>7. CallHasProvider' /\ RollingsRest' /\ ProvidersRest'
      BY <1>1, <1>2, <1>3, <1>4, <1>5, FreshFacts DEF CallHasProvider, RollingsRest, ProvidersRest
<1>8. EverythingVoiced'
      BY <1>1, <1>3, <1>4 DEF EverythingVoiced, Voiced, AllVoiced
<1>9. Held' = Range(call.pcm) \cup Units(Own.segment) \cup Range(Own.buffer) \cup UnitsOfAll(call.found)
      BY <1>4, <1>5 DEF Held
<1>10. OldIsShort'
      <2>1. Reach' = Held' \cup Units(Vad.cut.segment) \cup UnitsOfAll(Vad.cut.closed)
            BY <1>5 DEF Reach
      <2>2. Reach = Held \cup Units(Vad.cut.segment) \cup UnitsOfAll(Vad.cut.closed)
            BY <1>2 DEF Reach
      <2>3. Held' \subseteq Held \cup Range(call.pcm)
            BY <1>9 DEF Held
      <2>4. Old' \subseteq Old
            BY <1>4, <2>1, <2>2, <2>3 DEF Old
      <2> QED BY <1>1, <2>4, OldShrinks DEF OldIsShort
<1>11. SoundHeld' /\ EverySoundHeard' /\ SilenceIsShort'
      BY <1>4, <1>9 DEF SoundHeld, EverySoundHeard, SilenceIsShort
<1> QED BY <1>6, <1>7, <1>8, <1>10, <1>11 DEF IInv

LEMMA SileroRaisesStep == IInv /\ SileroRaises => IInv'
<1> SUFFICES ASSUME IInv, SileroRaises PROVE IInv'
    OBVIOUS
<1>1. TypeOK /\ CallHasProvider /\ RollingsRest /\ ProvidersRest /\ EverythingVoiced
      BY DEF IInv
<1>2. Busy /\ call.at = "push" /\ provider[rolling[call.sid].vad].kind = "silero"
      BY DEF SileroRaises, Busy, Vad
<1>3. /\ call' = [call EXCEPT !.at = "idle", !.pcm = <<>>, !.view = <<>>]
      /\ UNCHANGED <<bundle, provider, rolling, out, frames>>
      BY DEF SileroRaises
<1>4. /\ call'.at = "idle" /\ call'.sid = call.sid /\ call'.pcm = <<>>
      /\ call'.view = <<>> /\ call'.found = call.found
      /\ call' \in [at : {"idle", "push", "slice", "flush"}, sid : Sessions,
                    pcm : Seq(Unit), view : Seq(Unit), found : Seq(Segments)]
      <2>1. call \in [at : {"idle", "push", "slice", "flush"}, sid : Sessions,
                    pcm : Seq(Unit), view : Seq(Unit), found : Seq(Segments)]
            BY <1>1 DEF TypeOK
      <2>2. call' = [at |-> "idle", sid |-> call.sid, pcm |-> <<>>, view |-> <<>>, found |-> call.found]
            BY <1>3, <2>1
      <2> QED BY <2>1, <2>2
<1>5. ~Busy' /\ out' = <<>> /\ call.sid \in Sessions
      BY <1>1, <1>2, <1>3, <1>4, AtWork DEF Busy
<1>6. TypeOK'
      BY <1>1, <1>3, <1>4 DEF TypeOK
<1>7. CallHasProvider' /\ RollingsRest' /\ SoundHeld'
      BY <1>1, <1>2, <1>3, <1>4, <1>5, FreshFacts DEF CallHasProvider, RollingsRest, SoundHeld
<1>8. ProvidersRest'
      BY <1>1, <1>2, <1>3 DEF ProvidersRest
<1>9. EverythingVoiced'
      BY <1>1, <1>3, <1>4 DEF EverythingVoiced, Voiced, AllVoiced
<1>10. OldIsShort'
      <2>1. Submitted' = {}
            BY <1>5, UnitsOfParts DEF Submitted
      <2>2. Old' = {}
            BY <1>5, <2>1 DEF Old, Reach
      <2> QED BY <2>2, FS_EmptySet, VadAssumption DEF OldIsShort
<1>11. EverySoundHeard'
      BY <1>4, RangeOfEmpty DEF EverySoundHeard
<1>12. SilenceIsShort'
      BY <1>5 DEF SilenceIsShort
<1> QED BY <1>6, <1>7, <1>8, <1>9, <1>10, <1>11, <1>12 DEF IInv

LEMMA SliceChunkStep == IInv /\ SliceChunk => IInv'
<1> SUFFICES ASSUME IInv, SliceChunk PROVE IInv'
    OBVIOUS
<1> DEFINE i == call.sid
           new == CutChunk(Own, NextChunk)
           closes == Closes(Own, NextChunk)
<1>1. /\ TypeOK /\ CallHasProvider /\ RollingsRest /\ ProvidersRest
      /\ EverythingVoiced /\ SoundHeld /\ OldIsShort
      BY DEF IInv
<1>2. Busy /\ call.at = "slice" /\ Len(call.view) >= ChunkUnits
      BY DEF SliceChunk, Busy
<1>3. /\ i \in Sessions /\ rolling[i].vad \in Bundles /\ out = <<>> /\ Own \in Cuts
      /\ call.view \in Seq(Unit) /\ call.found \in Seq(Segments)
      BY <1>1, <1>2, AtWork
<1>4. /\ NextChunk \in Seq(Unit) /\ Len(NextChunk) = ChunkUnits /\ AfterChunk \in Seq(Unit)
      /\ Range(call.view) = Range(NextChunk) \cup Range(AfterChunk)
      BY <1>2, <1>3, NextChunkFacts
<1>5. Own = rolling[i].cut
      BY DEF Own
<1>6. Voiced(Own.segment) /\ (~Own.speaking => Own.segment = <<>>) /\ Own.closed = <<>> /\ Own.buffer = <<>>
      BY <1>1, <1>2, <1>3, <1>5 DEF EverythingVoiced, RollingsRest
<1>7. new \in Cuts /\ new.buffer = <<>> /\ new.closed = <<>>
      BY <1>3, <1>4, <1>6, CutChunkFields
<1>8. /\ closes \in Seq(Segments) /\ AllVoiced(closes) /\ Voiced(new.segment)
      /\ Units(new.segment) \cup UnitsOfAll(closes) \subseteq Units(Own.segment) \cup Range(NextChunk)
      /\ ~new.speaking => new.segment = <<>>
      /\ Units(Own.segment) \subseteq Units(new.segment) \cup UnitsOfAll(closes)
      /\ \A u \in Range(NextChunk) : u.loud => u \in Units(new.segment)
      BY <1>3, <1>4, <1>6, CutChunkKeeps
<1>9. /\ rolling' = [rolling EXCEPT ![i].cut = new]
      /\ call' = [call EXCEPT !.view = AfterChunk, !.found = call.found \o closes]
      /\ UNCHANGED <<bundle, provider, out, frames>>
      BY <1>5 DEF SliceChunk
<1> HIDE DEF new, closes
<1>10. call.found \o closes \in Seq(Segments)
      BY <1>3, <1>8
<1>11. /\ call'.at = call.at /\ call'.sid = i /\ call'.pcm = call.pcm
       /\ call'.view = AfterChunk /\ call'.found = call.found \o closes
       /\ call' \in [at : {"idle", "push", "slice", "flush"}, sid : Sessions,
                     pcm : Seq(Unit), view : Seq(Unit), found : Seq(Segments)]
      BY <1>1, <1>4, <1>9, <1>10 DEF TypeOK
<1>12. /\ rolling' \in [Sessions -> [vad : Bundles \cup {NoVad}, cut : Cuts]]
       /\ \A j \in Sessions : /\ rolling'[j].vad = rolling[j].vad
                             /\ rolling'[j].cut = IF j = i THEN new ELSE rolling[j].cut
      BY <1>1, <1>3, <1>7, <1>9, RollingUpdate
<1>13. Busy' /\ Own' = new /\ (rolling[call.sid].vad)' = rolling[i].vad /\ Vad' = Vad
      BY <1>2, <1>3, <1>9, <1>11, <1>12 DEF Busy, Own, Vad
<1>14. TypeOK'
      <2>1. Len(<<>>) < ChunkUnits
            BY VadAssumption
      <2> QED BY <1>1, <1>7, <1>9, <1>11, <1>12, <2>1 DEF TypeOK
<1>15. CallHasProvider'
      BY <1>3, <1>9, <1>13 DEF CallHasProvider
<1>16. RollingsRest'
      BY <1>1, <1>2, <1>7, <1>8, <1>11, <1>12 DEF RollingsRest
<1>17. ProvidersRest'
      BY <1>1, <1>2, <1>9, <1>13 DEF ProvidersRest
<1>18. EverythingVoiced'
      <2>1. AllVoiced(call.found \o closes)
            BY <1>1, <1>3, <1>8, VoicedParts DEF EverythingVoiced
      <2>2. \A j \in Sessions : Voiced(rolling'[j].cut.segment)
            BY <1>1, <1>8, <1>12 DEF EverythingVoiced
      <2> QED BY <1>1, <1>9, <1>11, <2>1, <2>2 DEF EverythingVoiced, Voiced, AllVoiced
<1>19. /\ Held' = Range(AfterChunk) \cup Units(new.segment) \cup Range(<<>>) \cup UnitsOfAll(call.found \o closes)
       /\ Held = Range(call.view) \cup Units(Own.segment) \cup Range(<<>>) \cup UnitsOfAll(call.found)
       /\ UnitsOfAll(call.found \o closes) = UnitsOfAll(call.found) \cup UnitsOfAll(closes)
      <2>1. Held' = Range(AfterChunk) \cup Units(new.segment) \cup Range(<<>>) \cup UnitsOfAll(call.found \o closes)
            BY <1>7, <1>11, <1>13 DEF Held
      <2>2. Held = Range(call.view) \cup Units(Own.segment) \cup Range(<<>>) \cup UnitsOfAll(call.found)
            BY <1>6 DEF Held
      <2> QED BY <1>3, <1>8, <2>1, <2>2, UnitsOfParts
<1>20. OldIsShort'
      <2>1. Held' \subseteq Held
            BY <1>4, <1>8, <1>19
      <2>2. Reach' = Held' \cup Units(Vad.cut.segment) \cup UnitsOfAll(Vad.cut.closed)
            BY <1>13 DEF Reach
      <2>3. Reach = Held \cup Units(Vad.cut.segment) \cup UnitsOfAll(Vad.cut.closed)
            BY <1>2 DEF Reach
      <2>4. Old' \subseteq Old
            BY <1>11, <2>1, <2>2, <2>3 DEF Old
      <2> QED BY <1>1, <2>4, OldShrinks DEF OldIsShort
<1>21. SoundHeld'
      <2>1. ASSUME NEW u \in Range(call.pcm), u.loud PROVE u \in Held'
            <3>1. u \in Held
                  BY <1>1, <1>2, <2>1 DEF SoundHeld
            <3>2. u \in Range(NextChunk) => u \in Units(new.segment)
                  BY <1>8, <2>1
            <3> QED BY <1>4, <1>8, <1>19, <3>1, <3>2
      <2> QED BY <1>2, <1>11, <2>1 DEF SoundHeld
<1>22. EverySoundHeard' /\ SilenceIsShort'
      BY <1>2, <1>11 DEF EverySoundHeard, SilenceIsShort
<1> QED BY <1>14, <1>15, <1>16, <1>17, <1>18, <1>20, <1>21, <1>22 DEF IInv

LEMMA SliceEndsStep == IInv /\ SliceEnds => IInv'
<1> SUFFICES ASSUME IInv, SliceEnds PROVE IInv'
    OBVIOUS
<1> DEFINE i == call.sid
           new == [Own EXCEPT !.buffer = call.view]
<1>1. /\ TypeOK /\ CallHasProvider /\ RollingsRest /\ ProvidersRest
      /\ EverythingVoiced /\ SoundHeld /\ OldIsShort
      BY DEF IInv
<1>2. Busy /\ call.at = "slice" /\ Len(call.view) < ChunkUnits
      BY DEF SliceEnds, Busy
<1>3. /\ i \in Sessions /\ rolling[i].vad \in Bundles /\ out = <<>> /\ Own \in Cuts
      /\ call.view \in Seq(Unit) /\ call.found \in Seq(Segments)
      BY <1>1, <1>2, AtWork
<1>4. Own = rolling[i].cut
      BY DEF Own
<1>5. Own.buffer = <<>>
      BY <1>1, <1>2, <1>3, <1>4 DEF RollingsRest
<1>6. /\ rolling' = [rolling EXCEPT ![i].cut = new]
      /\ call' = [call EXCEPT !.at = "flush", !.view = <<>>]
      /\ UNCHANGED <<bundle, provider, out, frames>>
      BY <1>4 DEF SliceEnds
<1>7. /\ new \in Cuts /\ new.buffer = call.view /\ new.closed = Own.closed
      /\ new.segment = Own.segment /\ new.speaking = Own.speaking
      BY <1>3 DEF Cuts
<1> HIDE DEF new
<1>8. /\ call'.at = "flush" /\ call'.sid = i /\ call'.pcm = call.pcm
      /\ call'.view = <<>> /\ call'.found = call.found
      /\ call' \in [at : {"idle", "push", "slice", "flush"}, sid : Sessions,
                    pcm : Seq(Unit), view : Seq(Unit), found : Seq(Segments)]
      <2>1. call \in [at : {"idle", "push", "slice", "flush"}, sid : Sessions,
                    pcm : Seq(Unit), view : Seq(Unit), found : Seq(Segments)]
            BY <1>1 DEF TypeOK
      <2>2. call' = [at |-> "flush", sid |-> call.sid, pcm |-> call.pcm, view |-> <<>>, found |-> call.found]
            BY <1>6, <2>1
      <2>3. <<>> \in Seq(Unit) /\ <<>> \in Seq(Segments)
            OBVIOUS
      <2> QED BY <2>1, <2>2, <2>3
<1>9. /\ rolling' \in [Sessions -> [vad : Bundles \cup {NoVad}, cut : Cuts]]
      /\ \A j \in Sessions : /\ rolling'[j].vad = rolling[j].vad
                            /\ rolling'[j].cut = IF j = i THEN new ELSE rolling[j].cut
      BY <1>1, <1>3, <1>6, <1>7, RollingUpdate
<1>10. Busy' /\ Own' = new /\ (rolling[call.sid].vad)' = rolling[i].vad /\ Vad' = Vad
      BY <1>2, <1>3, <1>6, <1>8, <1>9 DEF Busy, Own, Vad
<1>11. TypeOK'
      BY <1>1, <1>2, <1>6, <1>7, <1>8, <1>9 DEF TypeOK
<1>12. CallHasProvider'
      BY <1>3, <1>6, <1>10 DEF CallHasProvider
<1>13. RollingsRest'
      BY <1>1, <1>2, <1>4, <1>7, <1>8, <1>9 DEF RollingsRest
<1>14. ProvidersRest'
      BY <1>1, <1>2, <1>6, <1>10 DEF ProvidersRest
<1>15. EverythingVoiced'
      <2>1. \A j \in Sessions : Voiced(rolling'[j].cut.segment)
            BY <1>1, <1>3, <1>4, <1>7, <1>9 DEF EverythingVoiced
      <2> QED BY <1>1, <1>6, <1>8, <2>1 DEF EverythingVoiced, Voiced, AllVoiced
<1>16. Held' = Held
      <2>1. Held' = Range(<<>>) \cup Units(Own.segment) \cup Range(call.view) \cup UnitsOfAll(call.found)
            BY <1>7, <1>8, <1>10 DEF Held
      <2>2. Held = Range(call.view) \cup Units(Own.segment) \cup Range(<<>>) \cup UnitsOfAll(call.found)
            BY <1>5 DEF Held
      <2> QED BY <2>1, <2>2
<1>17. OldIsShort'
      <2>1. Old' = Old
            BY <1>2, <1>8, <1>10, <1>16 DEF Old, Reach
      <2> QED BY <1>1, <2>1 DEF OldIsShort
<1>18. SoundHeld' /\ EverySoundHeard' /\ SilenceIsShort'
      BY <1>1, <1>2, <1>8, <1>16 DEF SoundHeld, EverySoundHeard, SilenceIsShort
<1> QED BY <1>11, <1>12, <1>13, <1>14, <1>15, <1>17, <1>18 DEF IInv

LEMMA FlushStep == IInv /\ Flush => IInv'
<1> SUFFICES ASSUME IInv, Flush PROVE IInv'
    OBVIOUS
<1> DEFINE i == call.sid
           g == rolling[call.sid].vad
           rest == Flushed(Vad.cut)
           a == NonEmpty(Own.segment)
           b == NonEmpty(NonEmpty(Own.buffer))
           c == Vad.cut.closed
           d == NonEmpty(Vad.cut.segment)
<1>1. /\ TypeOK /\ CallHasProvider /\ RollingsRest /\ ProvidersRest
      /\ EverythingVoiced /\ SoundHeld /\ OldIsShort
      BY DEF IInv
<1>2. Busy /\ call.at = "flush"
      BY DEF Flush, Busy
<1>3. /\ i \in Sessions /\ g \in Bundles /\ Own \in Cuts /\ Vad.cut \in Cuts
      /\ call.found \in Seq(Segments)
      BY <1>1, <1>2, AtWork
<1>4. Own = rolling[i].cut /\ Vad.cut = provider[g].cut
      BY DEF Own, Vad
<1>5. /\ rolling' = [rolling EXCEPT ![i].cut = Fresh]
      /\ provider' = [provider EXCEPT ![g].cut = rest]
      /\ call' = [call EXCEPT !.at = "idle", !.found = <<>>]
      /\ out' = call.found \o a \o b \o c \o d
      /\ UNCHANGED <<bundle, frames>>
      BY <1>4 DEF Flush
<1>6. /\ rest \in Cuts /\ rest.buffer = Vad.cut.buffer
      /\ Rests(rest) /\ rest.segment = <<>> /\ rest.closed = <<>>
      BY <1>3, FlushedFields DEF Rests
<1>7. /\ a \in Seq(Segments) /\ b \in Seq(Segments) /\ c \in Seq(Segments) /\ d \in Seq(Segments)
      /\ UnitsOfAll(a) = Units(Own.segment) /\ UnitsOfAll(b) = Range(Own.buffer)
      /\ UnitsOfAll(d) = Units(Vad.cut.segment)
      /\ \A s \in Range(b) : s = <<Own.buffer>>
      /\ Voiced(Own.segment) => AllVoiced(a)
      /\ Voiced(Vad.cut.segment) => AllVoiced(d)
      <2>1. Own.segment \in Segments /\ Own.buffer \in Seq(Unit) /\ c \in Seq(Segments) /\ Vad.cut.segment \in Segments
            BY <1>3 DEF Cuts
      <2> QED BY <2>1, NonEmptyParts
<1>8. AllVoiced(call.found) /\ AllVoiced(a) /\ AllVoiced(c) /\ AllVoiced(d)
      BY <1>1, <1>3, <1>4, <1>7 DEF EverythingVoiced
<1>9. Len(Own.buffer) < ChunkUnits
      BY <1>1, <1>3, <1>4 DEF TypeOK
<1> HIDE DEF rest, a, b, c, d
<1>10. /\ out' \in Seq(Segments)
       /\ Range(out') = Range(call.found) \cup Range(a) \cup Range(b) \cup Range(c) \cup Range(d)
       /\ UnitsOfAll(out') = UnitsOfAll(call.found) \cup UnitsOfAll(a) \cup UnitsOfAll(b) \cup UnitsOfAll(c) \cup UnitsOfAll(d)
      <2> DEFINE fa == call.found \o a
                 fb == fa \o b
                 fc == fb \o c
      <2>1. fa \in Seq(Segments) /\ Range(fa) = Range(call.found) \cup Range(a)
            /\ UnitsOfAll(fa) = UnitsOfAll(call.found) \cup UnitsOfAll(a)
            BY <1>3, <1>7, RangeOfConcat, UnitsOfParts
      <2>2. out' = fc \o d
            BY <1>5
      <2> HIDE DEF fa
      <2>3. fb \in Seq(Segments) /\ Range(fb) = Range(fa) \cup Range(b)
            /\ UnitsOfAll(fb) = UnitsOfAll(fa) \cup UnitsOfAll(b)
            BY <1>7, <2>1, RangeOfConcat, UnitsOfParts
      <2> HIDE DEF fb
      <2>4. fc \in Seq(Segments) /\ Range(fc) = Range(fb) \cup Range(c)
            /\ UnitsOfAll(fc) = UnitsOfAll(fb) \cup UnitsOfAll(c)
            BY <1>7, <2>3, RangeOfConcat, UnitsOfParts
      <2> HIDE DEF fc
      <2>5. fc \o d \in Seq(Segments) /\ Range(fc \o d) = Range(fc) \cup Range(d)
            /\ UnitsOfAll(fc \o d) = UnitsOfAll(fc) \cup UnitsOfAll(d)
            BY <1>7, <2>4, RangeOfConcat, UnitsOfParts
      <2> QED BY <2>1, <2>2, <2>3, <2>4, <2>5
<1>11. /\ call'.at = "idle" /\ call'.sid = i /\ call'.pcm = call.pcm
       /\ call'.view = call.view /\ call'.found = <<>>
       /\ call' \in [at : {"idle", "push", "slice", "flush"}, sid : Sessions,
                     pcm : Seq(Unit), view : Seq(Unit), found : Seq(Segments)]
      <2>1. call \in [at : {"idle", "push", "slice", "flush"}, sid : Sessions,
                    pcm : Seq(Unit), view : Seq(Unit), found : Seq(Segments)]
            BY <1>1 DEF TypeOK
      <2>2. call' = [at |-> "idle", sid |-> call.sid, pcm |-> call.pcm, view |-> call.view, found |-> <<>>]
            BY <1>5, <2>1
      <2>3. <<>> \in Seq(Unit) /\ <<>> \in Seq(Segments)
            OBVIOUS
      <2> QED BY <2>1, <2>2, <2>3
<1>12. /\ rolling' \in [Sessions -> [vad : Bundles \cup {NoVad}, cut : Cuts]]
       /\ \A j \in Sessions : /\ rolling'[j].vad = rolling[j].vad
                             /\ rolling'[j].cut = IF j = i THEN Fresh ELSE rolling[j].cut
      BY <1>1, <1>3, <1>5, FreshFacts, RollingUpdate
<1>13. /\ provider' \in [Bundles -> [kind : Kinds, cut : Cuts]]
       /\ \A h \in Bundles : /\ provider'[h].kind = provider[h].kind
                            /\ provider'[h].cut = IF h = g THEN rest ELSE provider[h].cut
      BY <1>1, <1>3, <1>5, <1>6, ProviderUpdate
<1>14. ~Busy'
      BY <1>11 DEF Busy
<1>15. TypeOK'
      <2>1. bundle' \in Bundles /\ frames' \in 0..MaxFrames
            BY <1>1, <1>5 DEF TypeOK
      <2>2. \A j \in Sessions : Len(rolling'[j].cut.buffer) < ChunkUnits
            BY <1>1, <1>12, FreshFacts DEF TypeOK
      <2>3. \A h \in Bundles : Len(provider'[h].cut.buffer) < ChunkUnits
            BY <1>1, <1>3, <1>4, <1>6, <1>13 DEF TypeOK
      <2> QED BY <1>10, <1>11, <1>12, <1>13, <2>1, <2>2, <2>3 DEF TypeOK
<1>16. CallHasProvider' /\ RollingsRest'
      <2>1. \A j \in Sessions : rolling'[j].cut = Fresh
            BY <1>1, <1>2, <1>12 DEF RollingsRest
      <2> QED BY <1>11, <1>14, <2>1, FreshFacts DEF CallHasProvider, RollingsRest
<1>17. ProvidersRest'
      BY <1>1, <1>2, <1>6, <1>13 DEF ProvidersRest
<1>18. EverythingVoiced'
      <2>1. Voiced(<<>>) /\ AllVoiced(<<>>)
            BY VoicedParts
      <2>2. \A j \in Sessions : Voiced(rolling'[j].cut.segment)
            BY <1>1, <1>12, <2>1, FreshFacts DEF EverythingVoiced
      <2>3. \A h \in Bundles : Voiced(provider'[h].cut.segment) /\ AllVoiced(provider'[h].cut.closed)
            BY <1>1, <1>6, <1>13, <2>1 DEF EverythingVoiced
      <2> QED BY <1>11, <2>1, <2>2, <2>3 DEF EverythingVoiced, Voiced, AllVoiced
<1>19. Held = Units(Own.segment) \cup Range(Own.buffer) \cup UnitsOfAll(call.found)
      <2>1. Range(call.view) = {}
            BY <1>1, <1>2, RangeOfEmpty DEF SoundHeld
      <2> QED BY <2>1 DEF Held
<1>20. Submitted' = Held \cup Units(Vad.cut.segment) \cup UnitsOfAll(c)
      <2>1. Submitted' = UnitsOfAll(out')
            BY DEF Submitted
      <2> QED BY <1>7, <1>10, <1>19, <2>1
<1>21. OldIsShort'
      <2>1. Reach' = Submitted'
            BY <1>14 DEF Reach
      <2>2. Reach = Held \cup Units(Vad.cut.segment) \cup UnitsOfAll(c)
            BY <1>2 DEF Reach, c
      <2>3. Old' = Old
            BY <1>11, <1>20, <2>1, <2>2 DEF Old
      <2> QED BY <1>1, <2>3 DEF OldIsShort
<1>22. SoundHeld'
      BY <1>11 DEF SoundHeld
<1>23. EverySoundHeard'
      BY <1>1, <1>2, <1>11, <1>20 DEF EverySoundHeard, SoundHeld
<1>24. SilenceIsShort'
      <2>1. ASSUME NEW k \in DOMAIN out'
            PROVE  \/ Len(out'[k]) = 1 /\ Len(out'[k][1]) < ChunkUnits
                   \/ \A x \in DOMAIN out'[k] : Len(out'[k][x]) = ChunkUnits /\ Loud(out'[k][x])
            <3>1. out'[k] \in Range(out')
                  BY DEF Range
            <3>2. CASE out'[k] \in Range(b)
                  <4>1. out'[k] = <<Own.buffer>>
                        BY <1>7, <3>2
                  <4> QED BY <1>9, <4>1
            <3>3. CASE out'[k] \notin Range(b)
                  <4>1. Voiced(out'[k])
                        BY <1>8, <1>10, <3>1, <3>3 DEF AllVoiced
                  <4>2. \A x \in DOMAIN out'[k] : out'[k][x] \in Range(out'[k])
                        BY DEF Range
                  <4> QED BY <4>1, <4>2 DEF Voiced
            <3> QED BY <3>2, <3>3
      <2> QED BY <2>1 DEF SilenceIsShort
<1> QED BY <1>15, <1>16, <1>17, <1>18, <1>21, <1>22, <1>23, <1>24 DEF IInv

LEMMA IngestStep ==
    ASSUME IInv, NEW i \in Sessions, NEW loud \in Patterns, Ingest(i, loud)
    PROVE  IInv'
<1> DEFINE g == IF rolling[i].vad = NoVad THEN bundle ELSE rolling[i].vad
           pcm == [k \in DOMAIN loud |-> [sid |-> i, frame |-> frames, n |-> k, loud |-> loud[k]]]
           kept == Newest(rolling[i].cut.buffer \o pcm, MaxUnits)
           mine == IF loud = <<>> THEN <<>> ELSE kept
           view == IF loud = <<>> THEN <<>> ELSE provider[g].cut.buffer \o kept
           at == IF loud = <<>> THEN "flush" ELSE "push"
<1>1. TypeOK /\ RollingsRest /\ ProvidersRest /\ EverythingVoiced
      BY DEF IInv
<1>2. /\ call.at = "idle" /\ frames < MaxFrames /\ frames' = frames + 1
      /\ rolling' = [rolling EXCEPT ![i].vad = g]
      /\ out' = <<>> /\ UNCHANGED <<bundle, provider>>
      BY DEF Ingest
<1>3. call' = [at |-> at, sid |-> i, pcm |-> mine, view |-> view, found |-> <<>>]
      <2>1. loud = <<>> => call' = [at |-> "flush", sid |-> i, pcm |-> <<>>, view |-> <<>>, found |-> <<>>]
            BY DEF Ingest
      <2>2. loud # <<>> => call' = [at |-> "push", sid |-> i, pcm |-> kept,
                                    view |-> provider[g].cut.buffer \o kept, found |-> <<>>]
            BY DEF Ingest
      <2> QED BY <2>1, <2>2
<1>4. g \in Bundles
      <2>1. rolling[i].vad \in Bundles \cup {NoVad} /\ bundle \in Bundles
            BY <1>1 DEF TypeOK
      <2> QED BY <2>1
<1>5. provider[g].cut.buffer \in Seq(Unit) /\ Len(provider[g].cut.buffer) < ChunkUnits
      BY <1>1, <1>4 DEF TypeOK, Cuts
<1>6. kept \in Seq(Unit)
      <2>1. PICK n \in FrameUnits : loud \in [1..n -> BOOLEAN]
            BY DEF Patterns
      <2>2. n \in Nat /\ DOMAIN loud = 1..n /\ \A k \in 1..n : loud[k] \in BOOLEAN
            BY <2>1, VadAssumption
      <2>3. frames \in 0..MaxFrames
            BY <1>1 DEF TypeOK
      <2>4. \A k \in 1..n : [sid |-> i, frame |-> frames, n |-> k, loud |-> loud[k]] \in Unit
            BY <2>2, <2>3 DEF Unit
      <2>5. pcm \in [1..n -> Unit]
            BY <2>2, <2>4
      <2>6. pcm \in Seq(Unit)
            BY <2>2, <2>5, SeqDef
      <2>7. rolling[i].cut.buffer \in Seq(Unit)
            BY <1>1 DEF TypeOK, Cuts
      <2> HIDE DEF pcm
      <2>8. rolling[i].cut.buffer \o pcm \in Seq(Unit)
            BY <2>6, <2>7, ConcatProperties
      <2> QED BY <2>8, NewestType, VadAssumption
<1> HIDE DEF g, pcm, kept
<1>7. mine \in Seq(Unit) /\ view \in Seq(Unit) /\ Range(view) \ Range(mine) \subseteq Range(provider[g].cut.buffer)
      <2>1. CASE loud = <<>>
            BY <2>1, RangeOfEmpty
      <2>2. CASE loud # <<>>
            <3>1. provider[g].cut.buffer \o kept \in Seq(Unit)
                  BY <1>5, <1>6, ConcatProperties
            <3>2. Range(provider[g].cut.buffer \o kept) = Range(provider[g].cut.buffer) \cup Range(kept)
                  BY <1>5, <1>6, RangeOfConcat
            <3> QED BY <1>6, <2>2, <3>1, <3>2
      <2> QED BY <2>1, <2>2
<1>8. at \in {"flush", "push"} /\ (at = "flush" => mine = <<>> /\ view = <<>>)
      OBVIOUS
<1> HIDE DEF mine, view, at
<1>9. /\ call'.at = at /\ call'.sid = i /\ call'.pcm = mine /\ call'.view = view /\ call'.found = <<>>
      /\ call' \in [at : {"idle", "push", "slice", "flush"}, sid : Sessions,
                    pcm : Seq(Unit), view : Seq(Unit), found : Seq(Segments)]
      <2>1. <<>> \in Seq(Segments)
            OBVIOUS
      <2> QED BY <1>3, <1>7, <1>8, <2>1
<1>10. /\ rolling' \in [Sessions -> [vad : Bundles \cup {NoVad}, cut : Cuts]]
       /\ \A j \in Sessions : rolling'[j].cut = rolling[j].cut /\ rolling'[i].vad = g
      <2>1. rolling \in [Sessions -> [vad : Bundles \cup {NoVad}, cut : Cuts]]
            BY <1>1 DEF TypeOK
      <2>2. [rolling[i] EXCEPT !.vad = g] = [vad |-> g, cut |-> rolling[i].cut]
            BY <2>1
      <2>3. \A j \in Sessions : rolling'[j] = IF j = i THEN [vad |-> g, cut |-> rolling[i].cut] ELSE rolling[j]
            BY <1>2, <2>1, <2>2
      <2>4. rolling' \in [Sessions -> [vad : Bundles \cup {NoVad}, cut : Cuts]]
            BY <1>2, <1>4, <2>1, <2>2
      <2> QED BY <2>3, <2>4
<1>11. \A j \in Sessions : rolling'[j].cut = Fresh
      BY <1>1, <1>2, <1>10 DEF RollingsRest
<1>12. \A h \in Bundles : Rests(provider[h].cut)
      BY <1>1, <1>2 DEF ProvidersRest, Busy
<1>13. Busy' /\ Own' = Fresh /\ Vad' = provider[g] /\ (rolling[call.sid].vad)' = g
      BY <1>2, <1>8, <1>9, <1>10, <1>11 DEF Busy, Own, Vad
<1>14. TypeOK'
      <2>1. frames' \in 0..MaxFrames
            BY <1>1, <1>2, VadAssumption DEF TypeOK
      <2>2. out' \in Seq(Segments)
            BY <1>2
      <2> QED BY <1>1, <1>2, <1>9, <1>10, <2>1, <2>2 DEF TypeOK
<1>15. CallHasProvider'
      BY <1>2, <1>4, <1>13 DEF CallHasProvider
<1>16. RollingsRest'
      BY <1>11, FreshFacts DEF RollingsRest
<1>17. ProvidersRest'
      BY <1>2, <1>12 DEF ProvidersRest
<1>18. EverythingVoiced'
      <2>1. AllVoiced(<<>>) /\ Voiced(<<>>)
            BY VoicedParts
      <2> QED BY <1>1, <1>2, <1>9, <1>11, <2>1, FreshFacts DEF EverythingVoiced, Voiced, AllVoiced
<1>19. OldIsShort'
      <2>1. Units(<<>>) = {} /\ UnitsOfAll(<<>>) = {} /\ Range(<<>>) = {}
            BY UnitsOfParts, RangeOfEmpty
      <2>2. Held' = Range(view)
            <3>1. Held' = Range(view) \cup Units(<<>>) \cup Range(<<>>) \cup UnitsOfAll(<<>>)
                  BY <1>9, <1>13, FreshFacts DEF Held
            <3> QED BY <2>1, <3>1
      <2>3. Reach' = Range(view)
            <3>1. Reach' = Held' \cup Units(provider[g].cut.segment) \cup UnitsOfAll(provider[g].cut.closed)
                  BY <1>13 DEF Reach
            <3>2. provider[g].cut.segment = <<>> /\ provider[g].cut.closed = <<>>
                  BY <1>4, <1>12 DEF Rests
            <3> QED BY <2>1, <2>2, <3>1, <3>2
      <2>4. Old' \subseteq Range(provider[g].cut.buffer)
            BY <1>7, <1>9, <2>3 DEF Old
      <2>5. IsFiniteSet(Range(provider[g].cut.buffer)) /\ Cardinality(Range(provider[g].cut.buffer)) <= Len(provider[g].cut.buffer)
            BY <1>5, RangeIsSmall
      <2>6. Cardinality(Range(provider[g].cut.buffer)) < ChunkUnits
            <3>1. Cardinality(Range(provider[g].cut.buffer)) \in Nat /\ Len(provider[g].cut.buffer) \in Nat
                  BY <1>5, <2>5, FS_CardinalityType, LenProperties
            <3> QED BY <1>5, <2>5, <3>1, VadAssumption
      <2> QED BY <2>4, <2>5, <2>6, OldShrinks DEF OldIsShort
<1>20. SoundHeld'
      BY <1>8, <1>9, RangeOfEmpty DEF SoundHeld
<1>21. EverySoundHeard' /\ SilenceIsShort'
      BY <1>8, <1>9 DEF EverySoundHeard, SilenceIsShort
<1> QED BY <1>14, <1>15, <1>16, <1>17, <1>18, <1>19, <1>20, <1>21 DEF IInv

LEMMA WarmupStep == IInv /\ Warmup => IInv'
<1> SUFFICES ASSUME IInv, Warmup PROVE IInv'
    OBVIOUS
<1>1. /\ TypeOK /\ CallHasProvider /\ RollingsRest /\ ProvidersRest
      /\ EverythingVoiced /\ SoundHeld /\ OldIsShort /\ EverySoundHeard /\ SilenceIsShort
      BY DEF IInv
<1>2. /\ provider' = [provider EXCEPT ![bundle].cut = Fresh]
      /\ UNCHANGED <<bundle, rolling, call, out, frames>>
      BY DEF Warmup
<1>3. bundle \in Bundles
      BY <1>1 DEF TypeOK
<1>4. /\ provider' \in [Bundles -> [kind : Kinds, cut : Cuts]]
      /\ \A h \in Bundles : /\ provider'[h].kind = provider[h].kind
                           /\ provider'[h].cut = IF h = bundle THEN Fresh ELSE provider[h].cut
      BY <1>1, <1>2, <1>3, FreshFacts, ProviderUpdate
<1>5. TypeOK'
      BY <1>1, <1>2, <1>4, FreshFacts DEF TypeOK
<1>6. CallHasProvider' /\ RollingsRest'
      BY <1>1, <1>2 DEF CallHasProvider, RollingsRest, Busy
<1>7. ProvidersRest'
      BY <1>1, <1>2, <1>4, FreshFacts DEF ProvidersRest, Busy
<1>8. EverythingVoiced'
      <2>1. AllVoiced(<<>>) /\ Voiced(<<>>)
            BY VoicedParts
      <2>2. \A h \in Bundles : Voiced(provider'[h].cut.segment) /\ AllVoiced(provider'[h].cut.closed)
            BY <1>1, <1>4, <2>1, FreshFacts DEF EverythingVoiced
      <2> QED BY <1>1, <1>2, <2>2 DEF EverythingVoiced, Voiced, AllVoiced
<1>9. Held' = Held /\ Busy' = Busy /\ Submitted' = Submitted
      BY <1>2 DEF Held, Own, Busy, Submitted, Units, UnitsOfAll, Range
<1>10. OldIsShort'
      <2>1. Reach' \subseteq Reach
            <3>1. CASE ~Busy
                  BY <1>9, <3>1 DEF Reach
            <3>2. CASE Busy
                  <4>1. Reach = Held \cup Units(Vad.cut.segment) \cup UnitsOfAll(Vad.cut.closed)
                        BY <3>2 DEF Reach
                  <4>2. Reach' = Held \cup Units(Vad'.cut.segment) \cup UnitsOfAll(Vad'.cut.closed)
                        BY <1>9, <3>2 DEF Reach
                  <4>3. Vad'.cut = Vad.cut \/ Vad'.cut = Fresh
                        BY <1>1, <1>2, <1>4, <3>2 DEF Vad, CallHasProvider
                  <4>4. Units(<<>>) = {} /\ UnitsOfAll(<<>>) = {}
                        BY UnitsOfParts
                  <4>5. CASE Vad'.cut = Vad.cut
                        BY <4>1, <4>2, <4>5
                  <4>6. CASE Vad'.cut = Fresh
                        BY <4>1, <4>2, <4>4, <4>6, FreshFacts
                  <4> QED BY <4>3, <4>5, <4>6
            <3> QED BY <3>1, <3>2
      <2>2. Old' \subseteq Old
            BY <1>2, <2>1 DEF Old
      <2> QED BY <1>1, <2>2, OldShrinks DEF OldIsShort
<1>11. SoundHeld'
      BY <1>1, <1>2, <1>9 DEF SoundHeld
<1>12. EverySoundHeard' /\ SilenceIsShort'
      BY <1>1, <1>2, <1>9 DEF EverySoundHeard, SilenceIsShort, Loud
<1> QED BY <1>5, <1>6, <1>7, <1>8, <1>10, <1>11, <1>12 DEF IInv

\* Who reads neither the bundle nor the count of bundles sees no difference.
LEMMA LoadStep == IInv /\ (ModelsLoad \/ UNCHANGED vars) => IInv'
<1> SUFFICES ASSUME IInv, ModelsLoad \/ UNCHANGED vars PROVE IInv'
    OBVIOUS
<1>1. UNCHANGED <<provider, rolling, call, out, frames>>
      BY DEF ModelsLoad, vars
<1>2. TypeOK /\ bundle' \in Bundles
      <2>1. TypeOK /\ bundle \in Bundles
            BY DEF IInv, TypeOK
      <2>2. CASE ModelsLoad
            BY <2>1, <2>2, VadAssumption DEF ModelsLoad, Bundles
      <2>3. CASE UNCHANGED vars
            BY <2>1, <2>3 DEF vars
      <2> QED BY <2>1, <2>2, <2>3
<1>3. TypeOK'
      BY <1>1, <1>2 DEF TypeOK
<1>4. CallHasProvider' /\ RollingsRest' /\ ProvidersRest'
      BY <1>1 DEF IInv, CallHasProvider, RollingsRest, ProvidersRest, Busy
<1>5. EverythingVoiced'
      BY <1>1 DEF IInv, EverythingVoiced, Voiced, AllVoiced
<1>6. Held' = Held /\ Busy' = Busy /\ Submitted' = Submitted /\ Vad' = Vad
      BY <1>1 DEF Held, Own, Busy, Submitted, Vad, Units, UnitsOfAll, Range
<1>7. Reach' = Reach
      BY <1>6 DEF Reach
<1>8. OldIsShort'
      <2>1. Old' = Old
            BY <1>1, <1>7 DEF Old
      <2> QED BY <2>1 DEF IInv, OldIsShort
<1>9. SoundHeld'
      BY <1>1, <1>6 DEF IInv, SoundHeld
<1>10. EverySoundHeard' /\ SilenceIsShort'
      BY <1>1, <1>6 DEF IInv, EverySoundHeard, SilenceIsShort, Loud
<1> QED BY <1>3, <1>4, <1>5, <1>8, <1>9, <1>10 DEF IInv

-----------------------------------------------------------------------------
\* The inductive invariant holds in every behaviour of the cutters.
THEOREM VadInvariant == Spec => []IInv
<1>1. Init => IInv
      BY InitInvariant
<1>2. IInv /\ [Next]_vars => IInv'
      <2> SUFFICES ASSUME IInv, [Next]_vars PROVE IInv'
          OBVIOUS
      <2>1. ASSUME NEW i \in Sessions, NEW loud \in Patterns, Ingest(i, loud) PROVE IInv'
            BY <2>1, IngestStep
      <2>2. CASE ProviderChunk
            BY <2>2, ProviderChunkStep
      <2>3. CASE ProviderEnds
            BY <2>3, ProviderEndsStep
      <2>4. CASE SileroPush
            BY <2>4, SileroPushStep
      <2>5. CASE SileroRaises
            BY <2>5, SileroRaisesStep
      <2>6. CASE SliceChunk
            BY <2>6, SliceChunkStep
      <2>7. CASE SliceEnds
            BY <2>7, SliceEndsStep
      <2>8. CASE Flush
            BY <2>8, FlushStep
      <2>9. CASE Warmup
            BY <2>9, WarmupStep
      <2>10. CASE ModelsLoad \/ UNCHANGED vars
            BY <2>10, LoadStep
      <2> QED BY <2>1, <2>2, <2>3, <2>4, <2>5, <2>6, <2>7, <2>8, <2>9, <2>10 DEF Next
<1> QED BY <1>1, <1>2, PTL DEF Spec

\* The cutters keep their types, and no residual is as long as a chunk.
THEOREM VadTypeCorrect == Spec => []TypeOK
<1>1. IInv => TypeOK
      BY DEF IInv
<1> QED BY <1>1, VadInvariant, PTL

\* No loud unit of a frame is lost between the provider and the slicer, whatever
\* warmups and loads do to the provider in the middle of the call (push, flush).
THEOREM VadLosesNoSound == Spec => []EverySoundHeard
<1>1. IInv => EverySoundHeard
      BY DEF IInv
<1> QED BY <1>1, VadInvariant, PTL

\* A call leaves nothing behind but a residual of the provider (flush).
THEOREM VadDrains == Spec => []Drained
<1>1. IInv => Drained
      BY DEF IInv, RollingsRest, ProvidersRest, Busy, Drained
<1> QED BY <1>1, VadInvariant, PTL

\* A call submits its own frame and less than one chunk of older audio.
THEOREM VadKeepsLittle == Spec => []LittleIsOld
<1>1. IInv => LittleIsOld
      BY DEF IInv, OldIsShort, Old, Reach, Busy, LittleIsOld
<1> QED BY <1>1, VadInvariant, PTL

\* The recogniser gets no silence longer than a residual.
THEOREM VadSubmitsSpeech == Spec => []SilenceIsShort
<1>1. IInv => SilenceIsShort
      BY DEF IInv
<1> QED BY <1>1, VadInvariant, PTL
=============================================================================
