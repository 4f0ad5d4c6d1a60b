------------------------------ MODULE Analysis ------------------------------
(***************************************************************************)
(* run_analysis (analysis.py) over one export: timing and style            *)
(* (timing.py), the input of JPlag, its runs, its reports and the merge    *)
(* into the rows of the main sheet (jplag.py).                             *)
(*                                                                         *)
(* JPlag is another program: for each pair of files it was given, it may   *)
(* report any similarity.  That is a number of hundredths of a percent; a  *)
(* row shows tenths (similitud).                                           *)
(***************************************************************************)
EXTENDS Integers, Sequences, FiniteSets, SequencesExt, Functions

CONSTANTS
    Exports,       \* the exports: sequences of files, in the order of the directories
    Similarities,  \* what JPlag may report for a pair
    NoLang         \* the language of a file JPlag does not know

ASSUME AnalysisAssumption ==
    /\ \A e \in Exports :
          /\ e \in Seq(ToSet(e))
          /\ \A s \in ToSet(e) : /\ s.attempt \in Nat /\ s.dt \in Nat
                                /\ s.ac \in BOOLEAN /\ s.commented \in BOOLEAN
    /\ Similarities \subseteq Nat

VARIABLES
    subs,      \* the export
    soloAc,    \* opts.jplag_solo_ac
    stage,     \* how far run_analysis is
    rows,      \* rows[k]: the row of k = <<user, problem>> in main_rows
    sent,      \* sent[g]: the files of group g = <<problem, language>>
    queue,     \* groups JPlag is still to be run for
    unread,    \* comparisons in the reports that were not parsed yet
    pairs      \* jplag_rows

vars == <<subs, soloAc, stage, rows, sent, queue, unread, pairs>>

Files    == ToSet(subs)
KeyOf(s) == <<s.user, s.problem>>

Init ==
    /\ subs \in Exports
    /\ soloAc \in BOOLEAN
    /\ stage = "timing"
    /\ rows = <<>> /\ sent = <<>>
    /\ queue = {} /\ unread = {} /\ pairs = <<>>

\* The loops over files and pairs keep the first position with the largest
\* value; value is a function on the positions, of 1 .. n, that count.  0 if none.
Scan(n, value) ==
    LET best[i \in 0 .. n] ==
          IF i = 0 THEN 0
          ELSE IF i \in DOMAIN value /\ (best[i - 1] = 0 \/ value[i] > value[best[i - 1]])
               THEN i
               ELSE best[i - 1]
    IN  best[n]

-----------------------------------------------------------------------------
(* timing.py *)

\* The positions of the accepted files of k.
Accepted(k) == {i \in DOMAIN subs : KeyOf(subs[i]) = k /\ subs[i].ac}

\* Mutant: the attempts are not sorted.
FirstAcUnsorted(k) == Scan(Len(subs), [i \in Accepted(k) |-> 0])

\* items.sort(key=attempt), then the first with result AC.
FirstAc(k) == Scan(Len(subs), [i \in Accepted(k) |-> -subs[i].attempt])

\* first_ts_by_user: over all the problems.
FirstTs(u) == Scan(Len(subs), [i \in {j \in DOMAIN subs : subs[j].user = u} |-> -subs[i].dt])

Solved == {k \in {KeyOf(s) : s \in Files} : FirstAc(k) # 0}

\* segundos_desde_su_primer_envio
Seconds(k) == subs[FirstAc(k)].dt - subs[FirstTs(k[1])].dt

\* time_to_ac_by_problem
Group(p) == {k \in Solved : k[2] = p}
Times(p) == [k \in Group(p) |-> Seconds(k)]

\* For n times x with sum s and sum of squares q, the z-score of a time is
\* (n x - s) / sqrt(n q - s^2).
Off(k) == Cardinality(Group(k[2])) * Seconds(k) - SumFunction(Times(k[2]))

Spread(p) ==
    LET x == Times(p)
        s == SumFunction(x)
    IN  Cardinality(Group(p)) * SumFunction([k \in Group(p) |-> x[k] * x[k]]) - s * s

\* Mutant: the slow ones are flagged.
FastReversed(k) ==
    /\ Cardinality(Group(k[2])) > 2
    /\ Off(k) > 0
    /\ Off(k) * Off(k) * 200 * 200 > 201 * 201 * Spread(k[2])

\* round((seconds - mean) / pstdev, 2) < -1.0, without the square root: the
\* rounded score is -1.01 or less when the score is below -1.005.  A group of
\* one or two has no score.
Fast(k) ==
    /\ Cardinality(Group(k[2])) > 2
    /\ Off(k) < 0
    /\ Off(k) * Off(k) * 200 * 200 > 201 * 201 * Spread(k[2])

One(b) == IF b THEN 1 ELSE 0

\* An export without a file that matches: NoSubmissionsError.
NoSubmissions ==
    /\ stage = "timing" /\ subs = <<>>
    /\ stage' = "raised"
    /\ UNCHANGED <<subs, soloAc, rows, sent, queue, unread, pairs>>

\* analyze_timing_style
AnalyzeTimingStyle ==
    /\ stage = "timing" /\ subs # <<>>
    /\ rows' = [k \in Solved |->
          LET single == subs[FirstAc(k)].attempt - 1 = 0
              fast   == Fast(k)
              noted  == subs[FirstAc(k)].commented      \* comment_ratio > 0.15
          IN  [seconds |-> Seconds(k), single |-> single, fast |-> fast, noted |-> noted,
               score |-> One(single) + One(fast) + One(noted),
               similarity |-> -1, partner |-> <<>>]]
    /\ stage' = "prepare"
    /\ UNCHANGED <<subs, soloAc, sent, queue, unread, pairs>>

-----------------------------------------------------------------------------
(* jplag.py *)

GroupOf(s) == <<s.problem, s.lang>>
Usable(s)  == s.lang # NoLang /\ (soloAc => s.ac)

\* The positions of the files of u that JPlag may get in group g.
Offered(g, u) ==
    {i \in DOMAIN subs : GroupOf(subs[i]) = g /\ subs[i].user = u /\ Usable(subs[i])}

\* Mutant: the first file of a user stays.
BestFirst(g, u) == Scan(Len(subs), [i \in Offered(g, u) |-> 0])

\* best[(problem, lang, username)]: the first among the latest.
Best(g, u) == Scan(Len(subs), [i \in Offered(g, u) |-> subs[i].dt])

\* prepare_jplag_input; run_jplag skips the groups with one file.
PrepareJplagInput ==
    LET groups  == {GroupOf(s) : s \in {t \in Files : Usable(t)}}
        authors == {s.user : s \in Files}
    IN  /\ stage = "prepare"
        /\ sent' = [g \in groups |-> {subs[i] : i \in {Best(g, u) : u \in authors} \ {0}}]
        /\ queue' = {g \in groups : Cardinality(sent'[g]) >= 2}
        /\ stage' = "jplag"
        /\ UNCHANGED <<subs, soloAc, rows, unread, pairs>>

\* Without run_jplag: the web service has no report of an earlier run to use.
WithoutJplag ==
    /\ stage = "prepare"
    /\ stage' = "jplag"
    /\ UNCHANGED <<subs, soloAc, rows, sent, queue, unread, pairs>>

\* The pairs of a group, each file followed by one the export lists later.
PairsOf(F) ==
    {x \in F \X F : \E i, j \in DOMAIN subs : i < j /\ subs[i] = x[1] /\ subs[j] = x[2]}

\* A JVM of run_jplag ends.  A report of zeros stands for one that leaves out
\* the pairs, and for none.
RunJplag(g) ==
    /\ stage = "jplag" /\ g \in queue
    /\ \E sim \in [PairsOf(sent[g]) -> Similarities] :
          unread' = unread \cup {[group |-> g, a |-> x[1].user, b |-> x[2].user, sim |-> sim[x]] :
                                    x \in PairsOf(sent[g])}
    /\ queue' = queue \ {g}
    /\ UNCHANGED <<subs, soloAc, stage, rows, sent, pairs>>

\* JplagTimeout leaves run_analysis.
JplagTimesOut ==
    /\ stage = "jplag" /\ queue # {}
    /\ stage' = "raised"
    /\ UNCHANGED <<subs, soloAc, rows, sent, queue, unread, pairs>>

\* parse_jplag_result, one comparison of a report; the archive lists them in
\* any order.  A similarity of zero gives no row.
ParseComparison(c) ==
    /\ stage = "jplag" /\ queue = {} /\ c \in unread
    /\ unread' = unread \ {c}
    /\ pairs' = IF c.sim <= 0 THEN pairs
                ELSE Append(pairs, [problem |-> c.group[1], lang |-> c.group[2],
                                    a |-> c.a, b |-> c.b, similitud |-> (c.sim + 5) \div 10])
    /\ UNCHANGED <<subs, soloAc, stage, rows, sent, queue>>

\* The report is damaged: the rows read so far stay, the rest is given up.
ReportUnreadable(g) ==
    /\ stage = "jplag" /\ queue = {}
    /\ \E c \in unread : c.group = g
    /\ unread' = {c \in unread : c.group # g}
    /\ UNCHANGED <<subs, soloAc, stage, rows, sent, queue, pairs>>

\* The positions of the pairs k is in.
PairsWith(k) == {i \in DOMAIN pairs : pairs[i].problem = k[2] /\ k[1] \in {pairs[i].a, pairs[i].b}}

\* Mutant: a pair counts for the first of its users.
BestPairOneSided(k) ==
    Scan(Len(pairs), [i \in {j \in PairsWith(k) : pairs[j].a = k[1]} |-> pairs[i].similitud])

\* best_by_user_problem of merge_jplag_into_main: of equal ones the first.
BestPair(k) == Scan(Len(pairs), [i \in PairsWith(k) |-> pairs[i].similitud])

MergeJplagIntoMain ==
    /\ stage = "jplag" /\ queue = {} /\ unread = {}
    /\ rows' = [k \in DOMAIN rows |->
          LET best == pairs[BestPair(k)]
          IN  IF BestPair(k) = 0 THEN rows[k]
              ELSE [rows[k] EXCEPT
                      !.similarity = best.similitud,
                      !.partner = <<IF k[1] = best.a THEN best.b ELSE best.a>>,
                      !.score = @ + One(best.similitud >= 700)]]
    /\ stage' = "done"
    /\ UNCHANGED <<subs, soloAc, sent, queue, unread, pairs>>

Ended == stage \in {"done", "raised"} /\ UNCHANGED vars

Next ==
    \/ NoSubmissions \/ AnalyzeTimingStyle
    \/ PrepareJplagInput \/ WithoutJplag \/ JplagTimesOut
    \/ \E g \in queue : RunJplag(g)
    \/ \E c \in unread : ParseComparison(c) \/ ReportUnreadable(c.group)
    \/ MergeJplagIntoMain
    \/ Ended

Spec == Init /\ [][Next]_vars

-----------------------------------------------------------------------------

\* However the directories list the files, a row is there for who solved a
\* problem, and it is that of one of the solutions with the lowest number: its
\* number, its time since the first file of its user and its comments.  The
\* order can only choose among solutions of equal number (analyze_timing_style).
RowsByDefinition ==
    stage # "timing" /\ subs # <<>> =>
        /\ DOMAIN rows = {KeyOf(s) : s \in {t \in Files : t.ac}}
        /\ \A k \in DOMAIN rows : \E s \in Files :
              /\ KeyOf(s) = k /\ s.ac
              /\ \A t \in Files : KeyOf(t) = k /\ t.ac => s.attempt <= t.attempt
              /\ rows[k].single <=> s.attempt = 1
              /\ rows[k].noted <=> s.commented
              /\ \E t \in Files : t.user = s.user /\ rows[k].seconds = s.dt - t.dt
              /\ \A t \in Files : t.user = s.user => rows[k].seconds >= s.dt - t.dt

\* Fast is a remark about a minority: at most half of those who solved a
\* problem get it, and each of them was faster than all who did not get it.
FastAreFew ==
    \A j, k \in DOMAIN rows :
        LET group == {i \in DOMAIN rows : i[2] = k[2]}
        IN  rows[k].fast =>
              /\ 2 * Cardinality({i \in group : rows[i].fast}) <= Cardinality(group)
              /\ j \in group /\ ~rows[j].fast => rows[k].seconds < rows[j].seconds

\* JPlag gets one file per user, problem and language, and it is one of the
\* latest usable ones (prepare_jplag_input).
SentIsLatest ==
    \A g \in DOMAIN sent : \A s \in Files :
        GroupOf(s) = g /\ Usable(s) =>
            \E t \in sent[g] : /\ t.user = s.user /\ t.dt >= s.dt
                               /\ \A r \in sent[g] : r.user = s.user => r = t

\* What a row says about similarity is the maximum over the pairs its user is
\* in, in all languages of the problem, with a partner that reaches it; and the
\* score counts exactly the signs the row shows, for both users of a pair
\* (merge_jplag_into_main).
ScoreExplained ==
    stage = "done" =>
        \A k \in DOMAIN rows :
            LET mine == {r \in ToSet(pairs) : r.problem = k[2] /\ k[1] \in {r.a, r.b}}
                row  == rows[k]
            IN  /\ mine = {} <=> row.partner = <<>>
                /\ \A r \in mine : r.similitud <= row.similarity
                /\ mine # {} => \E r \in mine : /\ r.similitud = row.similarity
                                                /\ {r.a, r.b} = {k[1], row.partner[1]}
                /\ row.score = One(row.single) + One(row.fast) + One(row.noted)
                               + One(\E r \in mine : r.similitud >= 700)

=============================================================================
