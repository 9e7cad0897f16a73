------------------------------ MODULE Scanner ------------------------------
(***************************************************************************)
(* The scan of one document (scanner.py: scan_bytes, _analyze, with        *)
(* extract and Budget of extraction.py): the texts of the document are     *)
(* extracted as segments, and every segment, and whatever can be decoded   *)
(* from it, layer by layer, is searched for the patterns of the rules,     *)
(* within limits on segments, nesting, candidates, expansion, findings     *)
(* and time.                                                               *)
(*                                                                         *)
(* Abstractions.  A text is a name; `variants' gives the decodings that    *)
(* _variants makes of it, with the names of the encodings, in order, and   *)
(* `matches' the rules whose patterns it matches.  Every text counts as    *)
(* one unit of size.  The queue is kept as the level that is searched and  *)
(* the next one, and the texts of a level are taken in any order.  The     *)
(* time limit, and any error of a parser or a decoder, can end the scan at *)
(* any point.                                                              *)
(***************************************************************************)
EXTENDS ScanReports, Sequences, FiniteSets, FiniteSetsExt

CONSTANTS Texts,
          Blank,         \* texts of nothing but whitespace
          Rules,         \* a rule is a finding kind (harmful or hint) with a score
          Documents,     \* what can be scanned, see ScannerAssumption
          Limits         \* records of segments, depth, candidates, expansion, findings

\* A document has its texts, with whether they are hidden, is of a format with a
\* registered extractor or not, and its texts can hold invisible characters.
ASSUME ScannerAssumption ==
  /\ Documents \subseteq
       [texts : Seq([text : Texts, hidden : BOOLEAN]), registered : BOOLEAN,
        variants : [Texts -> Seq([text : Texts, encoding : STRING])],
        matches : [Texts -> SUBSET Rules], invisible : SUBSET Texts]
  /\ Limits \subseteq
       [segments : Nat, depth : 1..3, candidates : Nat, expansion : Nat, findings : Nat]

VARIABLES
  document,
  limits,
  scan,        \* idle, extracting, searching, complete, or why it failed
  taken,       \* number of texts the extractor is done with
  stopped,     \* the truncated flag of a registered extractor's result
  segments,    \* Extraction.segments
  segment,     \* number of the segment that is searched
  depth,
  level, next, \* queue: what is to be searched at this depth and at the next
  seen,        \* seen_text
  candidates,  \* candidates_count
  expanded,
  found,       \* findings: a rule, the segment, the encodings it was under
  searched     \* history: the texts of each segment that were searched

input == <<document, limits>>
extraction == <<taken, stopped, segments>>
search == <<segment, depth, level, next, seen, candidates, expanded, found, searched>>
scanVars == <<input, scan, extraction, search>>

Failures == {"limit", "broken", "internal"}
Nothing ==
  [texts |-> <<>>, registered |-> FALSE, variants |-> <<>>, matches |-> <<>>, invisible |-> {}]

ScannerInit ==
  /\ document = Nothing /\ limits = <<>>
  /\ scan = "idle"
  /\ taken = 0 /\ stopped = FALSE /\ segments = <<>>
  /\ segment = 1 /\ depth = 0 /\ level = {} /\ next = {} /\ seen = {}
  /\ candidates = 0 /\ expanded = 0
  /\ found = {} /\ searched = <<>>

BeginScan ==
  /\ scan = "idle"
  /\ document' \in Documents
  /\ limits' \in Limits
  /\ scan' = "extracting"
  /\ UNCHANGED <<extraction, search>>

Fails(failure) ==
  /\ scan' = failure
  /\ UNCHANGED <<input, extraction, search>>

ScanFails == scan \in {"extracting", "searching"} /\ \E failure \in Failures : Fails(failure)
-----------------------------------------------------------------------------
(* Extraction *)

\* One text more, unless there are too many: Budget.add.
Extracts ==
  /\ scan = "extracting" /\ ~stopped
  /\ taken < Len(document.texts)
  /\ LET text == document.texts[taken + 1]
     IN  IF text.text \notin Blank /\ Len(segments) >= limits.segments
         THEN Fails("limit")
         ELSE /\ taken' = taken + 1
              /\ segments' = IF text.text \in Blank THEN segments ELSE Append(segments, text)
              /\ UNCHANGED <<input, scan, stopped, search>>

\* A registered extractor may return part of the document and say so.
ExtractorStops ==
  /\ scan = "extracting" /\ document.registered /\ ~stopped
  /\ stopped' = TRUE
  /\ UNCHANGED <<input, scan, taken, segments, search>>

\* What a segment begins with.
Starts(i) == IF i \in DOMAIN segments THEN {[text |-> segments[i].text, under |-> <<>>]} ELSE {}
SeenFirst(i) == IF i \in DOMAIN segments THEN {segments[i].text} ELSE {}

\* Not all of the document, or none of it, is no result of a registered extractor.
Unusable == document.registered /\ (stopped \/ segments = <<>>)

ExtractionEnds ==
  /\ scan = "extracting"
  /\ stopped \/ taken = Len(document.texts)
  /\ IF Unusable
     THEN Fails("internal")
     ELSE /\ scan' = "searching"
          /\ level' = Starts(1)
          /\ seen' = SeenFirst(1)
          /\ searched' = [i \in DOMAIN segments |-> {}]
          /\ UNCHANGED <<input, extraction, segment, depth, next, candidates, expanded, found>>
-----------------------------------------------------------------------------
(* Search *)

Variants(t) == document.variants[t]
Decodings(t) == {Variants(t)[i].text : i \in DOMAIN Variants(t)}
Fresh(t) == Decodings(t) \ seen

\* Of several decodings to the same text the first counts.
Queued(item) ==
  {[text |-> Variants(item.text)[i].text, under |-> Append(item.under, Variants(item.text)[i].encoding)] :
     i \in {j \in DOMAIN Variants(item.text) :
              /\ Variants(item.text)[j].text \in Fresh(item.text)
              /\ \A k \in 1..(j - 1) : Variants(item.text)[k].text # Variants(item.text)[j].text}}

\* A surcharge for the way in which text that matches was put there.
Surcharge(id, matched) ==
  [id |-> id, score |-> 20,
   kind |-> IF \E r \in matched : r.kind = "harmful" THEN "harmful" ELSE "hint"]

\* The rules that report on a text: those it matches, and the scanner's own.
RulesOf(item) ==
  LET matched == document.matches[item.text]
      invisible == item.text \in document.invisible
      own == {Surcharge(id, matched) :
                id \in {s \in {"ENCODED", "HIDDEN", "UNICODE"} :
                          /\ matched # {}
                          /\ s = "ENCODED" => item.under # <<>>
                          /\ s = "HIDDEN" => segments[segment].hidden
                          /\ s = "UNICODE" => invisible}}
  IN  matched \cup own \cup (IF invisible /\ item.under = <<>> THEN {Surcharge("INVISIBLE", {})} ELSE {})

Findings(item) == {[rule |-> r, at |-> segment, under |-> item.under] : r \in RulesOf(item)}

\* At the limit of the depth nothing more is decoded.
PendingIgnored(t) == FALSE

\* At the limit of the depth, something that was not seen is left.
Pending(t) == Fresh(t) # {}

\* A text is taken from the queue, searched, and decoded.
Search ==
  /\ scan = "searching"
  /\ \E item \in level :
       LET t == item.text
           more == found \cup Findings(item)
           deepest == depth >= limits.depth
       IN  IF \/ Cardinality(more) > limits.findings
              \/ deepest /\ Pending(t)
              \/ ~deepest /\ candidates + Len(Variants(t)) > limits.candidates
              \/ ~deepest /\ expanded + Cardinality(Fresh(t)) > limits.expansion
           THEN Fails("limit")
           ELSE /\ found' = more
                /\ searched' = [searched EXCEPT ![segment] = @ \cup {t}]
                /\ level' = level \ {item}
                /\ IF deepest
                   THEN UNCHANGED <<next, seen, candidates, expanded>>
                   ELSE /\ next' = next \cup Queued(item)
                        /\ seen' = seen \cup Fresh(t)
                        /\ candidates' = candidates + Len(Variants(t))
                        /\ expanded' = expanded + Cardinality(Fresh(t))
                /\ UNCHANGED <<input, scan, extraction, segment, depth>>

Descend ==
  /\ scan = "searching"
  /\ level = {} /\ next # {}
  /\ level' = next
  /\ next' = {}
  /\ depth' = depth + 1
  /\ UNCHANGED <<input, scan, extraction, segment, seen, candidates, expanded, found, searched>>

NextSegment ==
  /\ scan = "searching"
  /\ level = {} /\ next = {} /\ segment \in DOMAIN segments
  /\ segment' = segment + 1
  /\ depth' = 0
  /\ level' = Starts(segment + 1)
  /\ seen' = SeenFirst(segment + 1)
  /\ UNCHANGED <<input, scan, extraction, next, candidates, expanded, found, searched>>

Completes ==
  /\ scan = "searching"
  /\ segment \notin DOMAIN segments
  /\ scan' = "complete"
  /\ UNCHANGED <<input, extraction, search>>

Scan ==
  \/ BeginScan
  \/ ScanFails
  \/ Extracts
  \/ ExtractorStops
  \/ ExtractionEnds
  \/ Search
  \/ Descend
  \/ NextSegment
  \/ Completes

ScannerSpec == ScannerInit /\ [][Scan]_scanVars
-----------------------------------------------------------------------------
(* The report *)

Scored == {f.rule : f \in found}

Score ==
  LET sum == MapThenSumSet(LAMBDA r : r.score, Scored)
  IN  IF sum > MaxScore THEN MaxScore ELSE sum

\* The thresholds of the rules, which the policy of the service overrides.
RuleThresholds == [version |-> 1, flag |-> 20, quarantine |-> 60, block |-> 80]

\* A failed scan keeps none of its findings.
ScanReport ==
  IF scan = "complete"
  THEN [status |-> ByScore(Score, RuleThresholds), complete |-> TRUE, truncated |-> FALSE,
        failureKind |-> "none", findings |-> {r.kind : r \in Scored}, score |-> Score]
  ELSE [status |-> "BLOCKED", complete |-> FALSE, truncated |-> scan = "limit",
        failureKind |-> IF scan = "broken" THEN "MALFORMED" ELSE "other",
        findings |-> {IF scan = "broken" THEN "corruption" ELSE "failure"}, score |-> MaxScore]
-----------------------------------------------------------------------------
\* Searched with everything that can be decoded from it, and what was decoded.
SearchedThrough(i) ==
  /\ segments[i].text \in searched[i]
  /\ \A t \in searched[i] :
       /\ Decodings(t) \subseteq searched[i]
       /\ document.matches[t] \subseteq Scored

\* A report that says it is complete is of a document of which every text was
\* extracted and searched, with everything that can be decoded from it, in any
\* number of layers, and it rests on every rule that any of this matches: a limit
\* makes the scan fail, and never skip (scanner.py:251, extraction.py:78,
\* extraction.py:549).  And the service calls a document VALID only when no rule
\* matches any of it.
CompleteMeansSearched ==
  /\ ScanReport.complete =>
       /\ \A k \in DOMAIN document.texts :
            document.texts[k].text \notin Blank =>
              \E i \in DOMAIN segments : segments[i] = document.texts[k]
       /\ \A i \in DOMAIN segments : SearchedThrough(i)
  /\ Clean(Report(ScanReport, RuleThresholds)) =>
       /\ ScanReport.complete
       /\ \A i \in DOMAIN segments, t \in Texts :
            t \in searched[i] => document.matches[t] = {}
=============================================================================
