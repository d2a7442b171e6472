---------------------------- MODULE SourceReader ----------------------------
(***************************************************************************)
(* read_px4_source_file, the analyser's tool for excerpts of the exact     *)
(* source (analysis/source_tools.py, px4/source.py): a page of at most     *)
(* LineLimit lines and CharLimit characters and where to continue, and no  *)
(* range twice, because the agent still has the earlier result.  The tool  *)
(* has no await, so a call is one step.  Here an agent follows the         *)
(* continuations of one range at a time, among other reads and failures.   *)
(*                                                                         *)
(* Definitions named Broken... are faulty variants of the definition they  *)
(* precede; the checks substitute them to see a property fail.             *)
(***************************************************************************)
EXTENDS Integers, FiniteSets, Sequences

CONSTANTS
  Texts,      \* files: the rendered length of each line
  LineLimit,  \* DEFAULT_READ_LINE_LIMIT
  CharLimit,  \* MAX_SOURCE_EXCERPT_CHARS
  MaxReads    \* bound: calls of the tool

VARIABLES
  text,       \* the file in the snapshot
  reads,      \* active_or_completed_reads: [start, end]
  given,      \* the ranges that were answered with an excerpt
  suppressed, \* the ranges that were answered as duplicates
  chain,      \* the range the agent is reading: from, to, what it has, next
  calls

readerVars == <<text, reads, given, suppressed, chain, calls>>

None == 0     \* next_start_line is null

ASSUME ReaderAssumption ==
  /\ LineLimit \in Nat \ {0} /\ CharLimit \in Nat \ {0} /\ MaxReads \in Nat
  /\ Texts \subseteq Seq(Nat \ {0})

NoChain == [from |-> 1, to |-> 0, shown |-> {}, next |-> None]

ReaderInit ==
  /\ text \in Texts
  /\ reads = {} /\ given = {} /\ suppressed = {}
  /\ chain = NoChain
  /\ calls = 0

Total == Len(text)
Lesser(m, n) == IF m <= n THEN m ELSE n

(***************************************************************************)
(* _read_source_lines and _compact_source_excerpt                          *)
(***************************************************************************)
Valid(start, end) == start >= 1 /\ end >= start /\ (Total = 0 \/ start <= Total)

\* selected_lines
Selected(start, end) == start .. Lesser(Lesser(end, start + LineLimit - 1), Total)

\* The length of the lines from start to last, joined by line ends.
Rendered(start, last) ==
  LET size[l \in (start - 1) .. Total] ==
        IF l < start THEN -1 ELSE size[l - 1] + 1 + text[l]
  IN  size[last]

\* The lines that fit; a first line that does not fit is cut and is alone on
\* its page.
Fits(start, end) ==
  {l \in Selected(start, end) : l = start \/ Rendered(start, l) <= CharLimit}

BrokenNext(start, end, shown) ==
  IF shown # {} /\ Selected(start, end) \ shown # {}
  THEN start + Cardinality(shown) ELSE None

\* next_start_line: the first line that did not fit, or, when all that was
\* selected fitted, what the request still wants of the file.
NextStart(start, end, shown) ==
  IF shown # {} /\ start + Cardinality(shown) <= Lesser(end, Total)
  THEN start + Cardinality(shown) ELSE None

(***************************************************************************)
(* One call                                                                *)
(***************************************************************************)

\* The agent takes up the page of (start, end), which it has just received or
\* had received before: it continues its range, or turns to a new one.
TakeUp(start, end) ==
  LET shown == Fits(start, end)
      next  == NextStart(start, end, shown)
  IN  chain' = IF chain.next # None /\ start = chain.next /\ end = chain.to
               THEN [from |-> chain.from, to |-> chain.to,
                     shown |-> chain.shown \cup shown, next |-> next]
               ELSE [from |-> start, to |-> end, shown |-> shown, next |-> next]

\* The range is not one, starts after the end of the file, or the source
\* cannot be read: the range may be read again.
ReadFails(start, end) ==
  /\ [start |-> start, end |-> end] \notin reads
  /\ UNCHANGED <<text, reads, given, suppressed, chain>>

ReadExcerpt(start, end) ==
  /\ [start |-> start, end |-> end] \notin reads
  /\ Valid(start, end)
  /\ reads' = reads \cup {[start |-> start, end |-> end]}
  /\ given' = given \cup {[start |-> start, end |-> end]}
  /\ TakeUp(start, end)
  /\ UNCHANGED <<text, suppressed>>

\* "reuse the earlier result for this exact range"
ReadDuplicate(start, end) ==
  /\ [start |-> start, end |-> end] \in reads
  /\ suppressed' = suppressed \cup {[start |-> start, end |-> end]}
  /\ TakeUp(start, end)
  /\ UNCHANGED <<text, reads, given>>

ReaderNext ==
  /\ calls < MaxReads
  /\ calls' = calls + 1
  /\ \E start \in 0 .. Total + 1, end \in 0 .. Total + 2 :
       ReadFails(start, end) \/ ReadExcerpt(start, end) \/ ReadDuplicate(start, end)

ReaderSpec == ReaderInit /\ [][ReaderNext]_readerVars

(***************************************************************************)
(* Properties                                                              *)
(***************************************************************************)

\* An agent that follows next_start_line, retries failures and reuses earlier
\* results has every line of its range up to the continuation, and the whole
\* range when there is none; every page moves it forward, whatever was too
\* long, failed or was suppressed.  A range is suppressed only after an
\* excerpt was given for it.
RangeIsReadable ==
  /\ suppressed \subseteq given
  /\ LET upTo == IF chain.next = None THEN Lesser(chain.to, Total)
                                      ELSE chain.next - 1
     IN  chain.shown = chain.from .. upTo
  /\ chain.next # None => chain.next > chain.from /\ chain.next <= Total
=============================================================================
