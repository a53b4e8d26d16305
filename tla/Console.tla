------------------------------- MODULE Console ------------------------------
(***************************************************************************)
(* The console's line editor: consoleintr(), which edits input.buf key by    *)
(* key and evaluates expressions in it, the ring of earlier lines, and       *)
(* consoleread().  Each key and each read is one section under cons.lock.    *)
(* The screen is left out.  Keys are typed while no entered line waits to be *)
(* read, the line is killed with the cursor at its end, and lines are shorter *)
(* than the buffer.                                                          *)
(***************************************************************************)
EXTENDS Integers, Sequences

CONSTANTS INPUT_BUF,
          N_HISTORY,
          Keyboards,     \* sets of keys with a bound on the line; a behaviour uses one
          ReadSizes      \* the n of consoleread()

NUL == ""
Digits == <<"0", "1", "2", "3", "4", "5", "6", "7", "8", "9">>
Digit == {Digits[i] : i \in 1..10}
Op == {"+", "-", "*", "/"}
Control == {"left", "right", "up", "down", "backspace", "kill", "enter"}
Char == UNION {k.set : k \in Keyboards} \ Control
Cell == 0..(INPUT_BUF - 1)
Empty == [buf |-> [i \in Cell |-> NUL], r |-> 0, w |-> 0, e |-> 0]

VARIABLES
  input,                     \* struct _buffer input: buf, r, w, e
  arrow,                     \* _arrow
  history,                   \* _history[]
  current, last,             \* _current_history and _last_history, modulo N_HISTORY
  keys                       \* what is typed, and how long a line

cvars == <<input, arrow, history, current, last, keys>>
ring == <<history, current, last>>
Slot == 0..(N_HISTORY - 1)

CInit == /\ input = Empty /\ arrow = 0 /\ history = [k \in Slot |-> Empty]
         /\ current = 0 /\ last = 0 /\ keys \in Keyboards

-----------------------------------------------------------------------------
(* expressions *)

\* __char_to_int() on the characters of s.
RECURSIVE char_to_int(_)
char_to_int(s) ==
  IF s = <<>> THEN 0
  ELSE 10 * char_to_int(SubSeq(s, 1, Len(s) - 1)) + (CHOOSE d \in 0..9 : Digits[d + 1] = s[Len(s)])

\* The decimal digits of a number, none for zero.
RECURSIVE Decimal(_)
Decimal(n) == IF n = 0 THEN <<>> ELSE Append(Decimal(n \div 10), Digits[(n % 10) + 1])

int_to_char(n) == IF n = 0 THEN <<"0">> ELSE IF n > 0 THEN Decimal(n) ELSE <<"-">> \o Decimal(-n)
\* n / m to one decimal, cut off: the point goes before the last of the digits.
float1p_to_char(n, m) ==
  LET s == Decimal((10 * n) \div m)
  IN  SubSeq(s, 1, Len(s) - 1) \o <<".", s[Len(s)]>>

solve_exp(n, op, m) ==
  CASE op = "+" -> int_to_char(n + m) [] op = "-" -> int_to_char(n - m)
    [] op = "*" -> int_to_char(n * m)
    [] op = "/" -> IF n = 0 THEN <<"0">> ELSE float1p_to_char(n, m)

\* __find_expression(): its automaton in state s at cell i of b, which stops at the
\* NUL; x is num1_start, y num1_end and z num2_end.  <<x, y, z>>, or <<>> when there is none.
RECURSIVE find_expression(_, _, _, _, _, _)
find_expression(b, i, s, x, y, z) ==
  LET go(t) == find_expression(b, i + 1, t, x, y, z)
  IN  CASE s = 5 -> <<x, y, z>>
        [] s # 5 /\ b[i] = NUL -> <<>>
        [] s = 0 /\ b[i] \in Digit -> find_expression(b, i + 1, 1, i, i, z)
        [] s = 1 /\ b[i] \in Digit -> find_expression(b, i + 1, 1, x, i, z)
        [] s \in {2, 3} /\ b[i] \in Digit -> find_expression(b, i + 1, 3, x, y, i)
        [] s = 1 /\ b[i] \in Op -> go(2)
        [] s = 3 /\ b[i] = "=" -> go(4)
        [] s = 4 /\ b[i] = "?" -> go(5)
        [] OTHER -> go(0)

-----------------------------------------------------------------------------
(* consoleintr(): the line in after a key, a the cursor's place from its end *)

\* ___shift_buf() to the left, onto the cell before c, k times over.
shift_left(b, end, c, k) ==
  [i \in Cell |-> IF i < c - k \/ i >= end THEN b[i] ELSE b[IF i + k < end THEN i + k ELSE end]]
shift_right(b, end, c, ch) ==
  [i \in Cell |-> IF i = c THEN ch ELSE IF i > c /\ i <= end THEN b[i - 1] ELSE b[i]]

Span(b, i, j) == [k \in 1..(j - i + 1) |-> b[i + k - 1]]

\* ___put_num_in_buf() at x.
put(b, x, num) == [i \in Cell |-> IF i >= x /\ i < x + Len(num) THEN num[i - x + 1] ELSE b[i]]

\* Where the cursor is left: behind the value.
behind(x, num, end) == x + Len(num) - end

\* The end of consoleintr(): an expression in the buffer is replaced by its value.  No
\* line asks for a quotient below 0.1, for which the code has no digits.
Quotable(n, op, m) == op = "/" => m # 0 /\ (n = 0 \/ 10 * n >= m)
evaluate(in, a) ==
  LET f == find_expression(in.buf, 0, 0, 0, 0, 0)
      x == f[1]
      size == f[3] + 3 - x
      n == char_to_int(Span(in.buf, x, f[2]))
      op == in.buf[f[2] + 1]
      m == char_to_int(Span(in.buf, f[2] + 2, f[3]))
      num == solve_exp(n, op, m)
      k == size - Len(num)
  IN  IF f = <<>> THEN input' = in /\ arrow' = a
      ELSE /\ Quotable(n, op, m)
           /\ input' = [buf |-> shift_left(put(in.buf, x, num), in.e, x + size, k), r |-> 0, w |-> 0, e |-> in.e - k]
           /\ arrow' = behind(x, num, in.e - k)

Idle == input.r = input.w
Shown == input.e + arrow              \* the cell of the cursor

\* The default case: a character at the end of the line or in its middle.
type(ch) ==
  /\ Idle /\ input.e < keys.line
  /\ evaluate(IF arrow = 0 THEN [input EXCEPT !.buf[input.e] = ch, !.e = @ + 1]
              ELSE [input EXCEPT !.buf = shift_right(@, input.e, Shown, ch), !.e = @ + 1], arrow)
  /\ UNCHANGED <<ring, keys>>

enter ==
  /\ Idle
  /\ evaluate([input EXCEPT !.buf[input.e] = "\n", !.e = @ + 1, !.w = input.e + 1], 0)
  /\ UNCHANGED <<ring, keys>>

bug_backspace ==
  /\ Idle /\ input.e # input.w
  /\ evaluate(IF arrow = 0 THEN [input EXCEPT !.buf[input.e - 1] = NUL, !.e = @ - 1]
              ELSE [input EXCEPT !.buf = shift_left(@, input.e, Shown, 1), !.e = @ - 1], arrow)
  /\ UNCHANGED <<ring, keys>>
backspace ==
  /\ Idle /\ input.e # input.w
  /\ evaluate(IF arrow = 0 THEN [input EXCEPT !.buf[input.e - 1] = NUL, !.e = @ - 1]
              ELSE IF arrow <= -input.e THEN input
              ELSE [input EXCEPT !.buf = shift_left(@, input.e, Shown, 1), !.e = @ - 1], arrow)
  /\ UNCHANGED <<ring, keys>>

\* C('U'): the edit index goes back to the write index; the cells stay.
kill_line == /\ Idle /\ arrow = 0 /\ evaluate([input EXCEPT !.e = input.w], arrow)
             /\ UNCHANGED <<ring, keys>>

left == /\ Idle /\ -arrow < input.e /\ evaluate(input, arrow - 1) /\ UNCHANGED <<ring, keys>>
right == /\ Idle /\ arrow # 0 /\ evaluate(input, arrow + 1) /\ UNCHANGED <<ring, keys>>

\* _arrow_key_console_handler() for the vertical arrows, to the slot c of the ring; the
\* new line is kept in its own slot when it is left.  r and w of a kept line are never read.
Kept == IF current # last THEN history
        ELSE [history EXCEPT ![last] = [input EXCEPT !.buf[input.e] = "\n", !.e = @ + 1, !.r = 0, !.w = 0]]
recall(c) ==
  /\ history' = Kept /\ current' = c
  /\ evaluate([Kept[c] EXCEPT !.e = @ - 1, !.r = 0, !.w = 0], 0)
  /\ UNCHANGED <<last, keys>>

Older == (current - 1 + N_HISTORY) % N_HISTORY
up == Idle /\ history[Older].buf[0] # NUL /\ Older # last /\ recall(Older)
down == Idle /\ current # last /\ recall((current + 1) % N_HISTORY)

\* consoleread(): at most n characters, no further than the end of the line, which then
\* goes to the ring.
consoleread(n) ==
  /\ ~Idle
  /\ IF input.r + n < input.w
     THEN input' = [input EXCEPT !.r = @ + n] /\ UNCHANGED <<arrow, ring, keys>>
     ELSE /\ history' = [history EXCEPT ![last] = [input EXCEPT !.r = 0, !.w = 0]]
          /\ last' = (last + 1) % N_HISTORY /\ current' = last'
          /\ input' = Empty /\ UNCHANGED <<arrow, keys>>

CNext ==
  \/ \E ch \in keys.set \cap Char : type(ch)
  \/ enter /\ "enter" \in keys.set
  \/ backspace \/ left \/ right
  \/ kill_line /\ "kill" \in keys.set
  \/ up \/ down
  \/ \E n \in ReadSizes : consoleread(n)

CSpec == CInit /\ [][CNext]_cvars

-----------------------------------------------------------------------------
LineOf(b, n) == Span(b, 0, n - 1)
Ago(k) == history[(last + N_HISTORY - k) % N_HISTORY]
Entered == IF Idle THEN 0 ELSE 1          \* the newline of an entered line
Depth == N_HISTORY - 1
\* How many earlier lines the ring holds.
Held == CHOOSE n \in 0..Depth : /\ \A k \in 1..n : Ago(k).buf[0] # NUL
                                /\ n < Depth => Ago(n + 1).buf[0] = NUL

Editor == INSTANCE LineEditor WITH
  line <- LineOf(input.buf, input.e - Entered),
  cursor <- IF Idle THEN Shown ELSE input.e - 1,
  past <- [k \in 1..Held |-> LineOf(Ago(k).buf, Ago(k).e - 1)],
  view <- (last + N_HISTORY - current) % N_HISTORY,
  draft <- IF current = last THEN <<>> ELSE LineOf(history[last].buf, history[last].e - 1),
  rest <- Span(input.buf, input.r, input.w - 1)

\* The console is a line editor: whatever is typed, moved over, deleted or recalled, the
\* buffer, its indices and the ring of lines show the line, the cursor and the earlier
\* lines that an editor with insertion, history and evaluation of "n op m=?" would, and
\* consoleread() hands out the entered line, each character once.
EditsLines == Editor!Spec
=============================================================================
