------------------------------ MODULE Transfer ------------------------------
(***************************************************************************)
(* How the bytes of a file become a version and are read back: content-    *)
(* defined chunking in TypeScript and in Rust, the delta against the       *)
(* server's signatures, the three encodings of the ops, the rebuilt chunk  *)
(* manifest with its 32-bit fields, the download.  One file goes through a *)
(* series of transfers, each by one of the routes of Routes; a step is one *)
(* turn of the loop it comes from, or all that runs on a Rayon thread.     *)
(*                                                                         *)
(* Abstracted: a strong hash stands for the bytes it is the hash of; the   *)
(* weak hash is Adler-32 with a small modulus, so that it collides; the    *)
(* condition fp & mask = 0 of the chunker, a function of the bytes since   *)
(* the chunk's start, is an arbitrary set of such byte strings, the same   *)
(* for both languages (they differ unless the average is a power of two,   *)
(* which every size the CLI chooses is).                                   *)
(***************************************************************************)
EXTENDS Integers, FiniteSets, SequencesExt

CONSTANTS Bytes,        \* a set of byte values
          MaxLength,    \* bound: length of a file
          MaxVersions,  \* bound: versions of the file
          MinSize, MaxSize,  \* chunk sizes: max(512, avg/4), min(4 MiB, avg * 64)
          BlockSize,    \* window of the fixed-size delta
          MaxChunk,     \* longest chunk that may be negotiated (4 MiB)
          HashPage,     \* hashes the verification takes at a time (10 000)
          MaxUpload,    \* body limit of the upload route (500 MB)
          ModAdler,     \* MOD_ADLER
          Modulus       \* 2^32: what a manifest or op field wraps at

ASSUME SizesAssumption == /\ MinSize \in Nat /\ MaxSize \in Nat /\ BlockSize \in Nat \ {0}
                          /\ MaxChunk >= MaxSize /\ HashPage \in Nat \ {0}
                          /\ MaxLength \in Nat /\ MaxUpload \in Nat /\ MaxVersions \in Nat
ASSUME WidthAssumption == Modulus \in Nat /\ Modulus > MaxUpload /\ Modulus > MaxSize
                          /\ Modulus > BlockSize

VARIABLES boundary,   \* the byte strings at whose end the fingerprint says "cut"
          files,      \* the versions' true contents, oldest first; the last one may
                      \* still be on its way
          routes,     \* the route each of them takes
          manifests,  \* the stored manifests, as encoded
          phase,      \* of the transfer: "idle", or the loop it is in
          ends,       \* cdcChunkEnds: the chunk ends found so far
          i, litStart,   \* the window of the fixed-size scan; start of the open literal
          ops, literals, \* what the client sends
          rows        \* the manifest rows the server has rebuilt so far

vars == <<boundary, files, routes, manifests, phase, ends, i, litStart, ops, literals, rows>>

versions == <<files, routes, manifests>>

(* What a client does: performPush, computeDelta in its two modes, or the  *)
(* pack-delta command of the Rust binary.                                  *)
Routes == {"push", "cdc", "fixed", "pack"}
Encodings == {"json", "bin", "flatbuf"}
route == Last(routes)
File == Last(files)
Previous == manifests # <<>>
Contents == BoundedSeq(Bytes, MaxLength)
Slice(d, s, e) == SubSeq(d, s + 1, e)
Least(S) == CHOOSE x \in S : \A y \in S : x <= y
SumOf(lengths) == FoldLeft(LAMBDA x, y : x + y, 0, lengths)
Lengths(rs) == [k \in DOMAIN rs |-> rs[k].length]

(* adler32 of shared/hash.ts.                                              *)
Adler32(bytes) ==
  FoldLeft(LAMBDA s, x : LET a == (s.a + x) % ModAdler
                         IN  [a |-> a, b |-> (s.b + a) % ModAdler], [a |-> 1, b |-> 0], bytes)

Row(offset, bytes, length) ==
  [offset |-> offset, length |-> length, weak |-> Adler32(bytes), strong |-> bytes]

(* encodeChunkManifestV1, then decodeChunkManifestV1: offset and length    *)
(* are 32-bit fields, the block index is the position.                     *)
Encode(rs) == [k \in DOMAIN rs |-> [rs[k] EXCEPT !.offset = @ % Modulus, !.length = @ % Modulus]]
Signatures == Last(manifests)

(* getSignatures: what a client knows of a path, nothing of a new one.     *)
Known == IF Previous THEN Signatures ELSE <<>>

(* What the verification of a version goes through: each hash once, in     *)
(* pages.                                                                  *)
UniqueHashes(rs) ==
  FoldLeft(LAMBDA seen, r : IF r.strong \in ToSet(seen) THEN seen ELSE Append(seen, r.strong),
           <<>>, rs)
HashPages(rs) ==
  LET all == UniqueHashes(rs)
      end(p) == Least({p * HashPage, Len(all)})
  IN  [p \in {q \in 1 .. Len(all) : (q - 1) * HashPage < Len(all)} |->
         Slice(all, (p - 1) * HashPage, end(p))]

(* buildSignatures in fixed mode, as the old clients cut a file.           *)
FixedBlocks(d) ==
  [k \in {b \in 1 .. Len(d) : (b - 1) * BlockSize < Len(d)} |->
     LET offset == (k - 1) * BlockSize
         end == Least({offset + BlockSize, Len(d)})
     IN  Row(offset, Slice(d, offset, end), end - offset)]

(* The blocks table keeps the index and the hashes of a block.             *)
BlockTable(blocks) ==
  [k \in DOMAIN blocks |-> [weak |-> blocks[k].weak, strong |-> blocks[k].strong]]

(* loadVersionChunks of a version without a manifest: offset and length    *)
(* follow from the index.                                                  *)
BlockRows(blocks, size) ==
  [k \in DOMAIN blocks |->
     LET offset == (k - 1) * BlockSize
     IN  [offset |-> offset, length |-> Least({BlockSize, size - offset}),
          weak |-> blocks[k].weak, strong |-> blocks[k].strong]]

(* A new file, or one whose newest version is from before the manifests.   *)
Init == /\ boundary \in SUBSET {s \in BoundedSeq(Bytes, MaxSize - 1) : Len(s) > MinSize}
        /\ \/ files = <<>> /\ routes = <<>> /\ manifests = <<>>
           \/ \E d \in Contents :
                /\ files = <<d>> /\ routes = <<"blocks">>
                /\ manifests = <<BlockRows(BlockTable(FixedBlocks(d)), Len(d))>>
        /\ phase = "idle"
        /\ ends = <<>> /\ ops = <<>> /\ literals = <<>> /\ rows = <<>>
        /\ i = 0 /\ litStart = 0

-----------------------------------------------------------------------------
Literal(offset, length) == [type |-> "literal", block |-> 0, offset |-> offset, length |-> length]
Copy(block) == [type |-> "copy", block |-> block, offset |-> 0, length |-> 0]

(* A transfer starts: performPush, or computeDelta with the signatures of  *)
(* the newest version.  Without signatures, for a new file or one that was *)
(* empty, the whole file is one literal, whichever mode or language it is. *)
Begin ==
  /\ phase = "idle" /\ Len(files) < MaxVersions
  /\ \E d \in Contents, r \in IF Known = <<>> THEN {"push", "cdc", "pack"} ELSE Routes :
       /\ files' = Append(files, d)
       /\ routes' = Append(routes, r)
       /\ IF r # "push" /\ Known = <<>>
          THEN phase' = "send" /\ ops' = <<Literal(0, Len(d))>> /\ literals' = d
          ELSE phase' = (IF r = "fixed" THEN "scan" ELSE "chunk") /\ UNCHANGED <<ops, literals>>
  /\ UNCHANGED <<boundary, manifests, ends, i, litStart, rows>>

-----------------------------------------------------------------------------
LastEnd == IF ends = <<>> THEN 0 ELSE Last(ends)

(* Mutant: the fingerprint is not started anew for each chunk.             *)
HitContinued(n, k) == Slice(File, 0, k) \in boundary

(* The fingerprint of the bytes from n to k, under the mask, is zero.      *)
Hit(n, k) == Slice(File, n, k) \in boundary

(* Mutant: a hit counts before the minimum.                                *)
CutEarly(n) ==
  LET hardMax == Least({n + MaxSize, Len(File)})
      hits == {k \in n + 1 .. hardMax : \E b \in boundary : Last(b) = File[k]}
  IN  IF hits = {} THEN hardMax ELSE Least(hits)

(* The end of the chunk that starts at n: the first hit of the fingerprint *)
(* behind the minimum, at most the maximum away, and never n itself.       *)
Cut(n) ==
  LET hardMax == Least({n + MaxSize, Len(File)})
      minEnd == Least({n + MinSize, Len(File)})
      hits == {k \in minEnd + 1 .. hardMax : Hit(n, k)}
      cut == IF hits = {} THEN hardMax ELSE Least(hits)
  IN  IF cut <= n THEN Least({n + 1, Len(File)}) ELSE cut

Chunk ==
  /\ phase = "chunk" /\ route # "pack"
  /\ LastEnd < Len(File)
  /\ ends' = Append(ends, Cut(LastEnd))
  /\ UNCHANGED <<boundary, versions, phase, i, litStart, ops, literals, rows>>

(* The Rust cdc_chunk_ends: from each end to the next, all in one task.    *)
NativeEnds ==
  LET len == Len(File)
      hardMax(n) == Least({n + MaxSize, len})
      minEnd(n) == Least({n + MinSize, len})
      cut(n) == CHOOSE k \in n + 1 .. len :
                  /\ \/ k > minEnd(n) /\ k <= hardMax(n) /\ Hit(n, k)
                     \/ k = hardMax(n)
                     \/ hardMax(n) = n /\ k = n + 1
                  /\ \A m \in minEnd(n) + 1 .. k - 1 : ~Hit(n, m)
      from[n \in 0 .. len] == IF n = len THEN <<>> ELSE LET e == cut(n) IN <<e>> \o from[e]
  IN  from[0]

(* buildSignatures, in cdc mode: with the addon in one go, or, when it is  *)
(* not installed or fails, by Chunk.                                       *)
TriesAddon == phase = "chunk" /\ route = "push" /\ ends = <<>> /\ File # <<>>

(* cdc_chunk_and_hash.                                                     *)
ChunkNatively ==
  /\ TriesAddon
  /\ ends' = NativeEnds
  /\ UNCHANGED <<boundary, versions, phase, i, litStart, ops, literals, rows>>

(* cdcRanges, and the chunks between the ends.                             *)
Start(es, k) == IF k = 1 THEN 0 ELSE es[k - 1]
Pieces(es) == [k \in DOMAIN es |-> Slice(File, Start(es, k), es[k])]
Chunks == Pieces(ends)

Finish == /\ phase' = "idle"
          /\ ends' = <<>> /\ ops' = <<>> /\ literals' = <<>> /\ rows' = <<>>
          /\ i' = 0 /\ litStart' = 0
          /\ UNCHANGED boundary

(* 4xx: nothing is stored.                                                 *)
Refuse == /\ files' = Front(files) /\ routes' = Front(routes)
          /\ UNCHANGED manifests
          /\ Finish

(* Mutant: the offset is advanced before the row is added.                 *)
EndOffsets(pieces) ==
  [k \in DOMAIN pieces |->
     Row(SumOf([m \in 1 .. k |-> Len(pieces[m])]), pieces[k], Len(pieces[k]))]

(* commit.ts: the rows of the negotiated chunks, by running offset.        *)
RunningOffsets(pieces) ==
  [k \in DOMAIN pieces |->
     Row(SumOf([m \in 1 .. k - 1 |-> Len(pieces[m])]), pieces[k], Len(pieces[k]))]

(* negotiateSchema: the chunks it accepts.                                 *)
Negotiable(pieces) == \A k \in DOMAIN pieces : Len(pieces[k]) \in 1 .. MaxChunk

Negotiated ==
  /\ phase = "chunk" /\ route = "push"
  /\ LastEnd = Len(File)
  /\ IF Negotiable(Chunks)
     THEN /\ rows' = RunningOffsets(Chunks)
          /\ phase' = "apply"
          /\ UNCHANGED <<boundary, versions, ends, i, litStart, ops, literals>>
     ELSE Refuse

(* Mutant: the weak hash decides.                                          *)
WeakMatches(bytes) ==
  {k \in DOMAIN Known : Known[k].weak = Adler32(bytes)}

(* The signatures a piece of the new file can be copied from; find takes   *)
(* the first.                                                              *)
Matches(bytes) ==
  {k \in DOMAIN Known : Known[k].weak = Adler32(bytes) /\ Known[k].strong = bytes}

(* One op for each chunk; the literals follow each other.                  *)
ChunkOps(pieces) ==
  LET hit(k) == {m \in Matches(pieces[k]) : Known[m].length = Len(pieces[k])}
      sent == [k \in DOMAIN pieces |-> IF hit(k) = {} THEN pieces[k] ELSE <<>>]
  IN  [ops |-> [k \in DOMAIN pieces |->
                  IF hit(k) # {} THEN Copy(Least(hit(k)))
                  ELSE Literal(SumOf([m \in 1 .. k - 1 |-> Len(sent[m])]), Len(pieces[k]))],
       literals |-> FlattenSeq(sent)]

(* computeDeltaCdc.                                                        *)
DeltaCdc ==
  /\ phase = "chunk" /\ route = "cdc"
  /\ LastEnd = Len(File)
  /\ ops' = ChunkOps(Chunks).ops /\ literals' = ChunkOps(Chunks).literals
  /\ phase' = "send"
  /\ UNCHANGED <<boundary, versions, ends, i, litStart, rows>>

(* The binary has a cdc_chunk_ends of its own, which computes the same.    *)
PackedEnds == NativeEnds

(* pack_delta: chunks and ops in one run of the binary.                    *)
PackDelta ==
  /\ phase = "chunk" /\ route = "pack"
  /\ LET delta == ChunkOps(Pieces(PackedEnds)) IN ops' = delta.ops /\ literals' = delta.literals
  /\ phase' = "send"
  /\ UNCHANGED <<boundary, versions, ends, i, litStart, rows>>

-----------------------------------------------------------------------------
(* flushLiteral(until).                                                    *)
Flushed(until) ==
  IF until > litStart
  THEN [ops |-> Append(ops, Literal(Len(literals), until - litStart)),
        literals |-> literals \o Slice(File, litStart, until)]
  ELSE [ops |-> ops, literals |-> literals]

(* computeDeltaFixed: a window that is a block of the old version becomes  *)
(* a copy, otherwise it moves on by one byte.                              *)
Scan ==
  /\ phase = "scan"
  /\ i <= Len(File) - BlockSize
  /\ LET hits == Matches(Slice(File, i, i + BlockSize)) IN
       IF hits # {}
       THEN /\ ops' = Append(Flushed(i).ops, Copy(Least(hits)))
            /\ literals' = Flushed(i).literals
            /\ i' = i + BlockSize /\ litStart' = i + BlockSize
       ELSE i' = i + 1 /\ UNCHANGED <<ops, literals, litStart>>
  /\ UNCHANGED <<boundary, versions, phase, ends, rows>>

ScanEnd ==
  /\ phase = "scan"
  /\ i > Len(File) - BlockSize
  /\ ops' = Flushed(Len(File)).ops
  /\ literals' = Flushed(Len(File)).literals
  /\ phase' = "send"
  /\ UNCHANGED <<boundary, versions, ends, i, litStart, rows>>

-----------------------------------------------------------------------------
RunningOffset == SumOf(Lengths(rows))

(* The ops after encoding and decoding: JSON is what it was; DSO1 writes   *)
(* 32 bits of each field and reads them back, DSO2 the field or nothing.   *)
Wrapped(op) == [op EXCEPT !.offset = @ % Modulus, !.length = @ % Modulus]
DecodedBinary == [k \in DOMAIN ops |-> Wrapped(ops[k])]
Decoded(encoding) == IF encoding = "bin" THEN DecodedBinary ELSE ops

(* encodeFlatManifest throws where a field does not fit.                   *)
FlatFits ==
  /\ Len(File) < Modulus
  /\ \A k \in DOMAIN ops : ops[k].offset < Modulus /\ ops[k].length < Modulus

(* metaSchema of a JSON request: a literal has at least a byte, and a file *)
(* that is not empty has ops.                                              *)
JsonValid ==
  /\ \A k \in DOMAIN ops : ops[k].type = "literal" => ops[k].length >= 1
  /\ ops = <<>> => File = <<>>

(* upload of cli/src/api.ts, the form: the ops are in meta, or counted     *)
(* there and in a part of their own; literals are a part if there are any. *)
Form(encoding) ==
  [opsEncoding |-> encoding, opCount |-> Len(ops),
   parts |-> {"meta"} \cup (IF encoding = "json" THEN {} ELSE {"opsBin"})
                      \cup (IF literals = <<>> THEN {} ELSE {"literals"})]

(* The part that is missing, or the count that is wrong (400).             *)
FormValid(form) ==
  form.opsEncoding # "json" => /\ "opsBin" \in form.parts
                               /\ form.opCount = Len(Decoded(form.opsEncoding))

(* The request is encoded and arrives: its body has a limit (413), of      *)
(* which the literals are what matters.  pack-delta writes DSO1.           *)
Send(encoding) ==
  /\ phase = "send"
  /\ route = "pack" => encoding = "bin"
  /\ IF \/ encoding = "flatbuf" /\ ~FlatFits
        \/ Len(literals) > MaxUpload
        \/ encoding = "json" /\ ~JsonValid
        \/ ~FormValid(Form(encoding))
     THEN Refuse
     ELSE /\ phase' = "apply"
          /\ ops' = Decoded(encoding)
          /\ UNCHANGED <<boundary, versions, ends, i, litStart, literals, rows>>

CopyRow(block) == [Signatures[block] EXCEPT !.offset = RunningOffset]

(* upload.ts, the next op: a copy repeats a row of the current version, a  *)
(* literal takes its length from the stream, wherever literalOffset points *)
(* to; without a literals part literal ops are passed over.                *)
Apply ==
  /\ phase = "apply"
  /\ ops # <<>>
  /\ LET op == Head(ops) IN
       IF op.type = "copy"
       THEN /\ rows' = Append(rows, CopyRow(op.block))
            /\ UNCHANGED literals
       ELSE IF literals = <<>> THEN UNCHANGED <<rows, literals>>
       ELSE /\ rows' = Append(rows, Row(RunningOffset, Slice(literals, 0, op.length), op.length))
            /\ literals' = Slice(literals, op.length, Len(literals))
  /\ ops' = Tail(ops)
  /\ UNCHANGED <<boundary, versions, phase, ends, i, litStart>>

(* The size check, then the transaction; or 400.                           *)
Store ==
  /\ phase = "apply"
  /\ ops = <<>>
  /\ IF RunningOffset = Len(File)
     THEN /\ manifests' = Append(manifests, Encode(rows))
          /\ UNCHANGED <<files, routes>>
          /\ Finish
     ELSE Refuse

Next == \/ Begin \/ Chunk \/ ChunkNatively \/ Negotiated \/ DeltaCdc \/ PackDelta
        \/ Scan \/ ScanEnd
        \/ \E e \in Encodings : Send(e)
        \/ Apply \/ Store

Spec == Init /\ [][Next]_vars

-----------------------------------------------------------------------------
Spelled(rs) == FlattenSeq([k \in DOMAIN rs |-> rs[k].strong])

(* What download.ts streams, the chunks of the manifest in order, is what  *)
(* the client had: for each version, each route it came by, and whatever   *)
(* the versions it was made from.  And nothing the code itself produces is *)
(* refused for its size (upload.ts:272): the ops add up to the file.       *)
DownloadIsFile ==
  /\ phase = "idle" => \A v \in DOMAIN manifests : Spelled(manifests[v]) = files[v]
  /\ phase = "apply" /\ ops = <<>> => RunningOffset = Len(File)

(* What is read out of a manifest: the signatures a client gets for its    *)
(* delta locate each chunk in the old file by offset and length, as long   *)
(* as the file fits 32-bit offsets; and the pages of the verification hold *)
(* each hash exactly once, none of them more than a page.                  *)
SignaturesLocate ==
  phase = "idle" =>
  /\ \A v \in DOMAIN manifests : Len(files[v]) < Modulus =>
       \A r \in ToSet(manifests[v]) :
         /\ r.offset + r.length <= Len(files[v])
         /\ Slice(files[v], r.offset, r.offset + r.length) = r.strong
  /\ Previous =>
       LET pages == HashPages(Signatures)
           hashes == {r.strong : r \in ToSet(Signatures)}
       IN  /\ UNION {ToSet(pages[p]) : p \in DOMAIN pages} = hashes
           /\ SumOf([p \in DOMAIN pages |-> Len(pages[p])]) = Cardinality(hashes)
           /\ \A p \in DOMAIN pages : Len(pages[p]) <= HashPage

(* Chunk ends grow, stay within the file, and no chunk but the last is     *)
(* shorter than the options allow; none is longer.  And it does not matter *)
(* who cuts: the addon and the loop it replaces agree on each end.         *)
ChunkSizes ==
  /\ \A k \in DOMAIN ends :
       LET size == ends[k] - Start(ends, k) IN
         /\ 0 < size /\ ends[k] <= Len(File)
         /\ MaxSize > 0 => size <= MaxSize
         /\ ends[k] < Len(File) /\ MinSize < MaxSize => size > MinSize
  /\ phase = "chunk" => IsPrefix(ends, NativeEnds)

(* Content-defined chunking: where two versions cut at the same distance   *)
(* from their ends and agree from there on, all later cuts agree as well,  *)
(* so an edit is paid for only until the next common cut.                  *)
EndsOf(m) == {SumOf(Lengths(SubSeq(m, 1, k))) : k \in 0 .. Len(m)}
CutsRealign ==
  phase = "chunk" /\ Previous /\ LastEnd = Len(File) /\ routes[Len(files) - 1] = "push" =>
    LET old == files[Len(files) - 1]
        tail(n) == Slice(File, n, Len(File))
        shift == Len(File) - Len(old)
        cuts == ToSet(ends) \cup {0}
    IN  \A n \in cuts :
          n - shift \in EndsOf(Signatures) /\ IsSuffix(tail(n), old)
            => \A m \in n .. Len(File) : m \in cuts <=> m - shift \in EndsOf(Signatures)
=============================================================================
