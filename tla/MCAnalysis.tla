----------------------------- MODULE MCAnalysis -----------------------------
(***************************************************************************)
(* Exports for TLC: those that matter for the timing, without a language   *)
(* JPlag knows, and those that matter for JPlag.                           *)
(***************************************************************************)
EXTENDS Analysis, TLC

CONSTANTS First, Second, Third, Problem, None

File(u, attempt, dt, ac, lang) ==
    [user |-> u, problem |-> Problem, attempt |-> attempt, dt |-> dt, ac |-> ac,
     lang |-> lang, commented |-> attempt = 2]

\* What one author may have sent: up to two files, the second not before the first.
Timed(u) ==
    {<<>>}
    \cup {<<File(u, 1, t, ac, None)>> : t \in 0 .. 2, ac \in BOOLEAN}
    \cup {<<File(u, 1, x[1], a, None), File(u, 2, x[2], b, None)>> :
             x \in {<<0, 0>>, <<0, 1>>, <<0, 2>>, <<1, 2>>}, a \in BOOLEAN, b \in BOOLEAN}

\* One language or two, one file or two of a language, at once or in turn.
Compared(u) ==
    { <<>>,
      <<File(u, 1, 0, TRUE, "cpp")>>,
      <<File(u, 1, 0, TRUE, "cpp"), File(u, 2, 1, FALSE, "cpp")>>,
      <<File(u, 1, 1, FALSE, "cpp"), File(u, 2, 1, TRUE, "cpp")>>,
      <<File(u, 1, 0, TRUE, "cpp"), File(u, 2, 1, TRUE, "py")>> }

\* One author after the other, in one order or its reverse; any other order of
\* the authors is one of these with the authors renamed (MCSymmetry).
Listed(S(_)) ==
    LET joined == {x \o y \o z : x \in S(First), y \in S(Second), z \in S(Third)}
    IN  joined \cup {Reverse(f) : f \in joined}

MCExports == Listed(Timed) \cup Listed(Compared)
MCSymmetry == Permutations({First, Second, Third})

=============================================================================
