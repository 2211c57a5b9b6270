----------------------------- MODULE Playground -----------------------------
(***************************************************************************)
(* routes/playground.tsx: the page that runs the delta library on two      *)
(* texts.  Each change of a text or of the block size starts a run at once *)
(* (the effect on run), a click starts one when none is shown as running,  *)
(* and nothing cancels a run: several are under way, each on the inputs it *)
(* was started with, and end in any order.  Chosen files are read in the   *)
(* background as well.                                                     *)
(*                                                                         *)
(* The library's other mode has no page; Init says whether the page is     *)
(* open or some caller uses block mode.                                    *)
(***************************************************************************)
EXTENDS DeltaLib

CONSTANTS Texts,      \* what the editors may hold
          SampleOld, SampleNew,  \* what they hold at first
          Inputs,     \* what block mode is called with
          Sizes,      \* the options of the block size select
          MaxDemo,    \* 256 KiB: longer files are refused
          MaxActs     \* bound: what the user does

ASSUME TextsAssumption == /\ SampleOld \in Texts /\ SampleNew \in Texts
                          /\ Sizes \subseteq Nat \ {0} /\ Sizes # {}
(* A byte is less than MOD_ADLER.                                          *)
ASSUME BytesAssumption == Texts \cup Inputs \subseteq Seq(0 .. ModAdler - 1)
ASSUME ActsAssumption == MaxActs \in Nat

VARIABLES hits,       \* for each average size, what its mask hits
          open,       \* the page is open
          page,       \* oldText, newText, blockSize
          runs,       \* runs under way, in the order they started
          reads,      \* files being read
          running,    \* the button says "computing"
          verified,   \* the badge: "none", "ok" or "MISMATCH"
          shown,      \* the run whose signatures and result are shown
          started, overtaken, acts   \* runs started; an older run ended after a newer
                                     \* one; what the user did so far

pageVars == <<page, runs, reads, running, verified, shown, started, overtaken, acts>>
vars == <<callVars, hits, open, pageVars>>

Pages == [old : Texts, new : Texts, size : Sizes]
Run(n, p) == [no |-> n, in |-> p, at |-> "signatures"]
NoRun == Run(0, [old |-> <<>>, new |-> <<>>, size |-> 0])

(* A larger average has a longer mask, which hits less.                    *)
Masks ==
  LET strings == {s \in BoundedSeq(UNION {ToSet(t) : t \in Texts}, Cap - 1) : Len(s) > Floor}
  IN  {h \in [Sizes -> SUBSET strings] : \A m, n \in Sizes : m < n => h[n] \subseteq h[m]}

(* A run rebuilds the new text from the old one and compares.              *)
Reconstructed(h, p) ==
  LET sigs == ChunkSignatures(p.old, p.size, h[p.size])
  IN  Rebuilds(p.old, sigs, Result(ChunkDelta(p.new, sigs, p.size, h[p.size])), p.new)

(* The page opens with sample texts; its first run starts with it.         *)
Init ==
  /\ LibInit
  /\ hits \in Masks
  /\ open \in BOOLEAN
  /\ ~open => hits = [n \in Sizes |-> {}]
  /\ page = [old |-> SampleOld, new |-> SampleNew, size |-> Least(Sizes)]
  /\ runs = IF open THEN <<Run(1, page)>> ELSE <<>>
  /\ reads = <<>>
  /\ running = open /\ verified = "none" /\ shown = NoRun
  /\ started = 1 /\ overtaken = FALSE /\ acts = 0

-----------------------------------------------------------------------------
Act == acts < MaxActs /\ acts' = acts + 1

(* run(): it keeps the inputs of the render it belongs to.                 *)
StartRun(p) ==
  /\ runs' = Append(runs, Run(started + 1, p))
  /\ started' = started + 1
  /\ running' = TRUE /\ verified' = "none"

(* Mutant: blockSize is missing among the dependencies of run.             *)
SetSizeOnly(p) ==
  /\ p # page
  /\ page' = p
  /\ IF p.size # page.size THEN UNCHANGED <<runs, started, running, verified>> ELSE StartRun(p)

(* A state that really changes gives a new run, which the effect calls.    *)
SetPage(p) ==
  /\ p # page
  /\ page' = p
  /\ StartRun(p)

(* The text area of either FileEditor, and the select of the block sizes.  *)
EditText == \E t \in Texts : \/ SetPage([page EXCEPT !.old = t])
                            \/ SetPage([page EXCEPT !.new = t])
PickSize == \E n \in Sizes : SetPage([page EXCEPT !.size = n])
Edit ==
  /\ Act
  /\ EditText \/ PickSize
  /\ UNCHANGED <<reads, shown, overtaken>>

Click ==
  /\ Act
  /\ ~running
  /\ StartRun(page)
  /\ UNCHANGED <<page, reads, shown, overtaken>>

(* loadFile: the size first, then the text when it has been read.          *)
ChooseFile ==
  /\ Act
  /\ \E t \in Texts, which \in {"old", "new"} :
       /\ Len(t) <= MaxDemo
       /\ reads' = Append(reads, [which |-> which, text |-> t])
  /\ UNCHANGED <<page, runs, running, verified, shown, started, overtaken>>

FileRead ==
  /\ \E k \in DOMAIN reads :
       LET p == [page EXCEPT ![reads[k].which] = reads[k].text] IN
         /\ reads' = RemoveAt(reads, k)
         /\ \/ SetPage(p)
            \/ p = page /\ UNCHANGED <<page, runs, started, running, verified>>
  /\ UNCHANGED <<shown, overtaken, acts>>

-----------------------------------------------------------------------------
(* computeSignatures resolves.                                             *)
SignaturesDone(k) ==
  /\ runs[k].at = "signatures"
  /\ runs' = [runs EXCEPT ![k].at = "delta"]

(* computeDelta resolves.                                                  *)
DeltaDone(k) == runs[k].at = "delta" /\ runs' = RemoveAt(runs, k)

Show(k) ==
  /\ shown' = runs[k] /\ overtaken' = (overtaken \/ runs[k].no < shown.no)
  /\ verified' = IF Reconstructed(hits, runs[k].in) THEN "ok" ELSE "MISMATCH"
  /\ UNCHANGED <<page, reads, started, acts>>

(* The result is checked and shown, whatever is on the page by now, and    *)
(* the page is no longer "running".                                        *)
Finish(k) == DeltaDone(k) /\ Show(k) /\ running' = FALSE

PageStep ==
  /\ open
  /\ \/ Edit \/ Click \/ ChooseFile \/ FileRead
     \/ \E k \in DOMAIN runs :
          \/ /\ SignaturesDone(k)
             /\ UNCHANGED <<page, reads, running, verified, shown, started, overtaken, acts>>
          \/ Finish(k)
  /\ UNCHANGED <<callVars, hits, open>>

CallStep == /\ ~open
            /\ LibStep \/ \E o, n \in Inputs, size \in Sizes : Call(o, n, size)
            /\ UNCHANGED <<hits, open, pageVars>>

Next == PageStep \/ CallStep

Spec == Init /\ [][Next]_vars

-----------------------------------------------------------------------------
(* The badge never says MISMATCH: whatever texts and block sizes meet, the *)
(* delta rebuilds the new text and its counters add up to it.  Block mode  *)
(* has no badge; its delta does the same.                                  *)
NeverMismatch == verified # "MISMATCH" /\ BlockDeltaRebuilds

(* When nothing is under way, what is shown belongs to the texts on the    *)
(* page, unless an older run ended after a newer one: no change goes       *)
(* without a run of its own.                                               *)
ShownIsCurrent == open /\ runs = <<>> => shown.in = page \/ overtaken
=============================================================================
