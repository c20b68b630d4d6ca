------------------------------- MODULE Densities -------------------------------
(***************************************************************************)
(* history_fsm_transitions_prob_density_to_csv: the file of a state, with  *)
(* one column for each of its transitions and one line for each entry of   *)
(* their histograms.  A line that says the same as the one before it is    *)
(* left out, unless it is the last of its kind.                            *)
(*                                                                         *)
(* A column is a count over the total of its transition; the total is the  *)
(* same in all lines, and two counts that differ print differently.        *)
(***************************************************************************)
EXTENDS HistoryFsm

history_fsm_entry_to_time(i) == i * transition_resolution_us

\* What line i of the file of the state at position s says, without its time.
Line(s, i) ==
  [e \in {f \in DOMAIN cnt : f[1] = s} |-> [count |-> cnt[e][i], total |-> total_count[e]]]

\* Mutant: a line that is left out is forgotten.
LeftOut_Forgotten(file) == file

LeftOut(file) == [file EXCEPT !.last_printed = FALSE]

\* The line that was left out just before comes with the one that differs.
PrintLine(file, s, i) ==
  IF i = 0 THEN [file EXCEPT !.lines = <<0>>]
  ELSE IF Line(s, i) = Line(s, i - 1) THEN LeftOut(file)
  ELSE [lines        |-> file.lines \o (IF file.last_printed THEN <<i>> ELSE <<i - 1, i>>),
        last_printed |-> TRUE]

\* The entries that get a line, in the order of the lines.
Printed(s) ==
  LET file[n \in 0 .. history_fsm_entry_count] ==
        IF n = 0 THEN [lines |-> << >>, last_printed |-> FALSE]
        ELSE PrintLine(file[n - 1], s, n - 1)
  IN file[history_fsm_entry_count].lines

\* The file can be plotted: it begins at time 0, its times do not go back, and
\* what is left out between two lines, or after the last, is a repetition of
\* the line before it, so that a straight line between two lines is the density.
DensitiesReadable ==
  \A s \in Positions :
    LET lines == Printed(s) IN
    /\ history_fsm_entry_to_time(lines[1]) = 0
    /\ \A k \in 1 .. Len(lines) - 1 :
         history_fsm_entry_to_time(lines[k]) <= history_fsm_entry_to_time(lines[k + 1])
    /\ \A k \in 1 .. Len(lines) :
         LET next == IF k = Len(lines) THEN history_fsm_entry_count ELSE lines[k + 1] IN
         /\ \A i \in lines[k] .. next - 1 : Line(s, i) = Line(s, lines[k])
         /\ k < Len(lines) /\ next > lines[k] + 1 => Line(s, next) = Line(s, lines[k])
================================================================================
