------------------------------ MODULE DeltaLib ------------------------------
(***************************************************************************)
(* src/lib/rsync, the delta library that runs in the browser: Adler-32 and *)
(* its rolling form, signatures and delta in both chunking modes, and the  *)
(* reconstruction.  The chunk mode is a set of operators; the block mode,  *)
(* which awaits a hash in the middle of its loop, is a machine with one    *)
(* action per turn, for one call of computeDelta.                          *)
(*                                                                         *)
(* Abstracted as in Transfer: a strong hash stands for its bytes, and the  *)
(* fingerprint condition is a set of byte strings, hits.                   *)
(***************************************************************************)
EXTENDS Integers, SequencesExt

CONSTANTS ModAdler,  \* MOD_ADLER
          Floor,     \* 256: the least minimum of a chunk
          Cap,       \* 256 KiB: the greatest maximum
          Spread     \* 32: the maximum in averages

ASSUME LibAssumption == ModAdler \in Nat \ {0} /\ Floor \in Nat /\ Cap \in Nat /\ Spread \in Nat

VARIABLES call,      \* the arguments of a block-mode computeDelta and where it is
          i, litStart, state, ops   \* its loop: window, open literal, Adler state, ops

callVars == <<call, i, litStart, state, ops>>

Least(S) == CHOOSE x \in S : \A y \in S : x <= y
Greatest(S) == CHOOSE x \in S : \A y \in S : x >= y
Slice(d, s, e) == SubSeq(d, s + 1, e)

-----------------------------------------------------------------------------
(* The weak hash                                                           *)

(* The % of JavaScript: the sign is the dividend's.                        *)
Rem(x) == IF x >= 0 THEN x % ModAdler ELSE -((-x) % ModAdler)

Adler32(bytes) ==
  FoldLeft(LAMBDA s, x : LET a == (s.a + x) % ModAdler
                         IN  [a |-> a, b |-> (s.b + a) % ModAdler], [a |-> 1, b |-> 0], bytes)

(* Mutant: nothing keeps b above zero.                                     *)
RollBare(s, n, outByte, inByte) ==
  LET a == Rem(s.a - outByte + inByte + ModAdler)
  IN  [a |-> a, b |-> Rem(s.b - n * outByte + a - 1)]

(* rollAdler32: a window of n bytes moves on by one.                       *)
Roll(s, n, outByte, inByte) ==
  LET a == Rem(s.a - outByte + inByte + ModAdler)
  IN  [a |-> a, b |-> Rem(s.b - n * outByte + a - 1 + ModAdler * (n + 1))]

Weak16(weak) == weak.a

-----------------------------------------------------------------------------
(* Signatures                                                              *)

Signature(d, s, e) ==
  [offset |-> s, length |-> e - s, weak |-> Adler32(Slice(d, s, e)), strong |-> Slice(d, s, e)]

(* The chunks of a file, for an average size and what its mask hits.       *)
Ranges(d, size, hits) ==
  LET minSize == Greatest({Floor, size \div 4})
      maxSize == Least({Cap, size * Spread})
      cut(n) == LET hardMax == Least({n + maxSize, Len(d)})
                    found == {k \in n + minSize + 1 .. hardMax : Slice(d, n, k) \in hits}
                IN  IF found = {} THEN Greatest({hardMax, Least({n + 1, Len(d)})}) ELSE Least(found)
      from[n \in 0 .. Len(d)] ==
        IF n = Len(d) THEN <<>> ELSE LET e == cut(n) IN <<<<n, e>>>> \o from[e]
  IN  from[0]

ChunkSignatures(d, size, hits) ==
  LET r == Ranges(d, size, hits) IN [k \in DOMAIN r |-> Signature(d, r[k][1], r[k][2])]

BlockSignatures(d, size) ==
  [k \in 1 .. (Len(d) + size - 1) \div size |->
     Signature(d, (k - 1) * size, Least({k * size, Len(d)}))]

-----------------------------------------------------------------------------
(* Delta and reconstruction                                                *)

Copy(block, offset, length) ==
  [type |-> "copy", block |-> block, offset |-> offset, length |-> length, bytes |-> <<>>]
Literal(d, s, e) ==
  [type |-> "literal", block |-> 0, offset |-> s, length |-> e - s, bytes |-> Slice(d, s, e)]

(* The bucket of a weak hash, in the order of the signatures.              *)
Bucket(sigs, weak) == {k \in DOMAIN sigs : Weak16(sigs[k].weak) = Weak16(weak)}

(* In block mode only full blocks are in it.                               *)
FixedBucket(sigs, weak, size) == {k \in Bucket(sigs, weak) : sigs[k].length = size}

(* Mutant: the bucket decides.                                             *)
ChunkMatchesBucket(sigs, piece) ==
  {k \in Bucket(sigs, Adler32(piece)) : sigs[k].length = Len(piece)}

ChunkMatches(sigs, piece) ==
  {k \in Bucket(sigs, Adler32(piece)) :
     sigs[k].weak = Adler32(piece) /\ sigs[k].strong = piece /\ sigs[k].length = Len(piece)}

(* computeDeltaCdcChunked.                                                 *)
ChunkDelta(d, sigs, size, hits) ==
  LET r == Ranges(d, size, hits)
      op(s, e) == LET found == ChunkMatches(sigs, Slice(d, s, e)) IN
                    IF found # {} THEN Copy(Least(found), s, e - s) ELSE Literal(d, s, e)
  IN  IF sigs # <<>> THEN [k \in DOMAIN r |-> op(r[k][1], r[k][2])]
      ELSE IF d # <<>> THEN <<Literal(d, 0, Len(d))>> ELSE <<>>

(* out.set(bytes, offset) for each op: the last write to a byte stays, and *)
(* a write past the end makes the array too long.                          *)
ApplyDelta(old, sigs, delta, newSize) ==
  LET byte(op, k) == IF op.type = "literal" THEN op.bytes[k - op.offset]
                     ELSE old[sigs[op.block].offset + k - op.offset]
      writes(k) == {m \in DOMAIN delta :
                      delta[m].offset < k /\ k <= delta[m].offset + delta[m].length}
      ends == {delta[m].offset + delta[m].length : m \in DOMAIN delta}
  IN  [k \in 1 .. Greatest({newSize} \cup ends) |->
         IF writes(k) = {} THEN 0 ELSE byte(delta[Greatest(writes(k))], k)]

(* The counters of computeDelta.                                           *)
Stats(delta) ==
  LET of(type) == {m \in DOMAIN delta : delta[m].type = type}
      bytes(type) == MapThenSumSet(LAMBDA m : delta[m].length, of(type))
  IN  [copied |-> bytes("copy"), literal |-> bytes("literal"),
       reused |-> Cardinality(of("copy")), runs |-> Cardinality(of("literal"))]

(* computeDelta: all ops there are, and the counters.                      *)
Result(delta) == [ops |-> delta, stats |-> Stats(delta)]

-----------------------------------------------------------------------------
(* computeDeltaChunked in block mode                                       *)

NoCall == [phase |-> "none", old |-> <<>>, new |-> <<>>, size |-> 1]
Window(n) == Slice(call.new, n, n + call.size)

LibInit == call = NoCall /\ i = 0 /\ litStart = 0 /\ state = Adler32(<<>>) /\ ops = <<>>

(* A file shorter than a block is one literal.                             *)
Call(old, new, size) ==
  /\ call.phase = "none"
  /\ i' = 0 /\ litStart' = 0
  /\ IF Len(new) < size
     THEN /\ call' = [phase |-> "done", old |-> old, new |-> new, size |-> size]
          /\ ops' = IF new = <<>> THEN <<>> ELSE <<Literal(new, 0, Len(new))>>
          /\ UNCHANGED state
     ELSE /\ call' = [phase |-> "scan", old |-> old, new |-> new, size |-> size]
          /\ state' = Adler32(Slice(new, 0, size))
          /\ UNCHANGED ops

CallSignatures == BlockSignatures(call.old, call.size)

BlockMatches ==
  {k \in FixedBucket(CallSignatures, state, call.size) :
     CallSignatures[k].weak = state /\ CallSignatures[k].strong = Window(i)}

(* yieldLiteral(until).                                                    *)
Flushed(until) ==
  IF until > litStart THEN Append(ops, Literal(call.new, litStart, until)) ELSE ops

Inside(n) == n + call.size <= Len(call.new)

(* The window is a block of the old file: the literal so far, then a copy. *)
Match ==
  /\ call.phase = "scan" /\ Inside(i)
  /\ BlockMatches # {}
  /\ ops' = Append(Flushed(i), Copy(Least(BlockMatches), i, call.size))
  /\ i' = i + call.size /\ litStart' = i + call.size
  /\ state' = IF Inside(i + call.size) THEN Adler32(Window(i + call.size)) ELSE state
  /\ UNCHANGED call

(* It is not: one byte leaves the window and one enters; at the end of the *)
(* file none can.                                                          *)
Slide ==
  /\ call.phase = "scan" /\ Inside(i)
  /\ BlockMatches = {}
  /\ i' = i + 1
  /\ state' = IF Inside(i + 1)
              THEN Roll(state, call.size, call.new[i + 1], call.new[i + call.size + 1])
              ELSE state
  /\ UNCHANGED <<call, litStart, ops>>

Return ==
  /\ call.phase = "scan" /\ ~Inside(i)
  /\ ops' = Flushed(Len(call.new))
  /\ call' = [call EXCEPT !.phase = "done"]
  /\ UNCHANGED <<i, litStart, state>>

LibStep == Match \/ Slide \/ Return

-----------------------------------------------------------------------------
(* The rolled state is the hash of the window, at every position: the      *)
(* constant-time slide of adler32.ts computes what adler32 would.          *)
RollingIsDirect ==
  call.phase = "scan" /\ Inside(i) => state = Adler32(Window(i))

(* What a delta says of itself and what it rebuilds.                       *)
Rebuilds(old, sigs, result, new) ==
  /\ ApplyDelta(old, sigs, result.ops, Len(new)) = new
  /\ result.stats.copied + result.stats.literal = Len(new)

(* Every block-mode delta rebuilds the new file from the old one, byte for *)
(* byte, and its counters add up to the file.                              *)
BlockDeltaRebuilds ==
  call.phase = "done" => Rebuilds(call.old, CallSignatures, Result(ops), call.new)
=============================================================================
