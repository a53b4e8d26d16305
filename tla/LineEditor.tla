----------------------------- MODULE LineEditor -----------------------------
(***************************************************************************)
(* What the console promises to whoever types: a line with a cursor in it,   *)
(* the lines entered before, and the evaluation of "n op m=?".               *)
(***************************************************************************)
EXTENDS Naturals, Sequences, SequencesExt

CONSTANTS Char, Digits, Op,
          Depth              \* lines remembered

VARIABLES line, cursor,      \* the line being typed; characters before the cursor
          past, view, draft, \* earlier lines, the latest first; the one shown, 0 for
                             \* the new line, which is kept meanwhile
          rest               \* of the entered line, what is not read yet

seen == <<line, cursor, past, view, draft, rest>>

Digit == ToSet(Digits)
Number(s) == s # <<>> /\ \A i \in 1..Len(s) : s[i] \in Digit
Num(s) == FoldLeft(LAMBDA v, d : 10 * v + (CHOOSE i \in 0..9 : Digits[i + 1] = d), 0, s)
\* a is how the number v is written.
Writes(a, v) == Number(a) /\ Num(a) = v /\ (Len(a) > 1 => a[1] # "0")
\* a is the value of m op n; a quotient is cut off after one decimal.
Right(m, op, n, a) ==
  \/ op = "+" /\ Writes(a, Num(m) + Num(n))
  \/ op = "*" /\ Writes(a, Num(m) * Num(n))
  \/ op = "-" /\ Num(m) >= Num(n) /\ Writes(a, Num(m) - Num(n))
  \/ op = "-" /\ Num(m) < Num(n) /\ a[1] = "-" /\ Writes(Tail(a), Num(n) - Num(m))
  \/ op = "/" /\ Num(m) = 0 /\ a = <<"0">>
  \/ /\ op = "/" /\ Num(m) # 0 /\ Num(n) # 0 /\ Len(a) > 1 /\ a[Len(a) - 1] = "."
     /\ Writes(SubSeq(a, 1, Len(a) - 2) \o <<a[Len(a)]>>, (10 * Num(m)) \div Num(n))

\* The places i..j of s that hold an expression, i at the start of a number.
Asked(s) == {r \in (1..Len(s)) \X (1..Len(s)) :
  /\ r[1] + 4 <= r[2] /\ s[r[2]] = "?" /\ s[r[2] - 1] = "="
  /\ r[1] > 1 => s[r[1] - 1] \notin Digit
  /\ \E k \in (r[1] + 1)..(r[2] - 3) :
       s[k] \in Op /\ Number(SubSeq(s, r[1], k - 1)) /\ Number(SubSeq(s, k + 1, r[2] - 2))}
Solves(s, r, a) ==
  \E k \in r[1]..r[2] : /\ s[k] \in Op
                        /\ Right(SubSeq(s, r[1], k - 1), s[k], SubSeq(s, k + 1, r[2] - 2), a)
\* An expression is replaced by its value, and the cursor is behind the value.  One that
\* follows an operator or "=" may also be taken for a part of a longer one, and stay.
Replaces(s, r) == /\ line' = SubSeq(s, 1, r[1] - 1) \o SubSeq(line', r[1], cursor')
                             \o SubSeq(s, r[2] + 1, Len(s))
                  /\ Solves(s, r, SubSeq(line', r[1], cursor'))
Plain(s, r) == r[1] = 1 \/ s[r[1] - 1] \notin Op \cup {"="}
Becomes(s, at) == \/ line' = s /\ cursor' = at /\ \A r \in Asked(s) : ~Plain(s, r)
                  \/ Len(line') < Len(s) /\ \E r \in Asked(s) : Replaces(s, r)

Before == SubSeq(line, 1, cursor)
After == SubSeq(line, cursor + 1, Len(line))
Insert(c) == Becomes(Append(Before, c) \o After, cursor + 1) /\ UNCHANGED <<past, view, draft, rest>>
Delete == /\ cursor > 0 /\ Becomes(SubSeq(line, 1, cursor - 1) \o After, cursor - 1)
          /\ UNCHANGED <<past, view, draft, rest>>
Move == cursor' \in 0..Len(line) /\ UNCHANGED <<line, past, view, draft, rest>>
Kill == line' = <<>> /\ cursor' = 0 /\ UNCHANGED <<past, view, draft, rest>>
\* An older or a newer line is shown; changes to an earlier line are forgotten.
Show(k) ==
  /\ k \in 0..Len(past) /\ view' = k /\ rest = <<>>
  /\ draft' = IF k = 0 THEN <<>> ELSE IF view = 0 THEN line ELSE draft
  /\ line' = IF k = 0 THEN draft ELSE past[k]
  /\ cursor' = Len(line') /\ UNCHANGED <<past, rest>>
\* The line is entered, read, and joins the earlier ones.
Enter == rest = <<>> /\ rest' = Append(line, "\n") /\ UNCHANGED <<line, past, view, draft>> /\ cursor' = Len(line)
Read == /\ \E n \in 1..Len(rest) : rest' = SubSeq(rest, n + 1, Len(rest))
        /\ IF rest' # <<>> THEN UNCHANGED <<line, cursor, past, view, draft>>
           ELSE /\ past' = SubSeq(<<line>> \o past, 1, IF Len(past) < Depth THEN Len(past) + 1 ELSE Depth)
                /\ line' = <<>> /\ cursor' = 0 /\ view' = 0 /\ draft' = <<>>

Init == line = <<>> /\ cursor = 0 /\ past = <<>> /\ view = 0 /\ draft = <<>> /\ rest = <<>>
Next == \/ Move \/ Delete \/ \E c \in Char : Insert(c)
        \/ Kill \/ \E k \in {view + 1, view - 1} : Show(k)
        \/ Enter \/ Read
Spec == Init /\ [][Next]_seen
=============================================================================
