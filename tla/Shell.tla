-------------------------------- MODULE Shell -------------------------------
(***************************************************************************)
(* The shell: the parser that turns a line into a command tree, and        *)
(* runcmd(), which runs the tree in forked processes joined by pipes.  The *)
(* calls a process makes on its own descriptors in a row are one step.     *)
(***************************************************************************)
EXTENDS Integers, Sequences, FiniteSets, FiniteSetsExt, SequencesExt

CONSTANTS
  Scripts,        \* the lines that are run; any others are only typed and parsed
  MaxLine,        \* bound: length of the lines that are typed, beginnings of Scripts aside
  MAXARGS,
  NPROC, NOFILE   \* slots for processes, the shell included; descriptors of each

whitespace == {" "}
symbols == {"<", "|", ">", "&", ";", "(", ")"}
Char == {"a"} \cup whitespace \cup symbols

-----------------------------------------------------------------------------
(* command trees *)

execcmd == [type |-> "EXEC", argv |-> <<>>]
redircmd(cmd, file, fd) == [type |-> "REDIR", cmd |-> cmd, file |-> file, fd |-> fd]
pipecmd(left, right) == [type |-> "PIPE", left |-> left, right |-> right]
listcmd(left, right) == [type |-> "LIST", left |-> left, right |-> right]
backcmd(cmd) == [type |-> "BACK", cmd |-> cmd]

\* The innermost command of a chain of redirections gets an argument.
RECURSIVE AddArg(_, _), argc(_)
AddArg(cmd, word) == IF cmd.type = "EXEC" THEN [cmd EXCEPT !.argv = Append(@, word)]
                     ELSE [cmd EXCEPT !.cmd = AddArg(@, word)]
argc(cmd) == IF cmd.type = "EXEC" THEN Len(cmd.argv) ELSE argc(cmd.cmd)

-----------------------------------------------------------------------------
(* the parser: s is what is left of the line; a result is the tree and the rest *)

RECURSIVE Skip(_)
Skip(s) == IF s # <<>> /\ Head(s) \in whitespace THEN Skip(Tail(s)) ELSE s
From(s, n) == SubSeq(s, n, Len(s))

gettoken(ps) ==
  LET s == Skip(ps)
      Got(ret, n) == [ret |-> ret, word |-> SubSeq(s, 1, n), s |-> Skip(From(s, n + 1))]
      End(n) == n = Len(s) \/ s[n + 1] \in whitespace \cup symbols
  IN  IF s = <<>> THEN Got("0", 0)
      ELSE IF IsPrefix(<<">", ">">>, s) THEN Got("+", 2)
      ELSE IF Head(s) \in symbols THEN Got(Head(s), 1)
      ELSE Got("a", Min({n \in 1..Len(s) : End(n)}))
peek(s, toks) == Skip(s) # <<>> /\ Head(Skip(s)) \in toks

Parsed(cmd, s) == [ok |-> TRUE, cmd |-> cmd, s |-> s]
panic == [ok |-> FALSE, cmd |-> execcmd, s |-> <<>>]
Sees(r, toks) == r.ok /\ peek(r.s, toks)
After(r) == gettoken(r.s).s

RECURSIVE parseline(_), parsepipe(_), parseredirs(_, _), parseargs(_), Backs(_)

Redirects(cmd, tok, file) ==
  IF file.ret # "a" THEN panic
  ELSE parseredirs(redircmd(cmd, file.word, IF tok.ret = "<" THEN 0 ELSE 1), file.s)
parseredirs(cmd, s) == IF peek(s, {"<", ">"}) THEN Redirects(cmd, gettoken(s), gettoken(gettoken(s).s))
                       ELSE Parsed(cmd, s)

bug_EndBlock(r) == IF Sees(r, {")"}) THEN Parsed(r.cmd, After(r)) ELSE panic   \* no redirections
EndBlock(r) == IF Sees(r, {")"}) THEN parseredirs(r.cmd, After(r)) ELSE panic
parseblock(s) == EndBlock(parseline(gettoken(s).s))

\* The loop of parseexec(), r parsed so far.
Argument(r, tok) ==
  IF tok.ret = "0" THEN r
  ELSE IF tok.ret # "a" \/ argc(r.cmd) + 1 >= MAXARGS THEN panic
  ELSE parseargs(parseredirs(AddArg(r.cmd, tok.word), tok.s))
parseargs(r) == IF ~r.ok \/ Sees(r, {"|", ")", "&", ";"}) THEN r ELSE Argument(r, gettoken(r.s))
parseexec(s) == IF peek(s, {"("}) THEN parseblock(s) ELSE parseargs(parseredirs(execcmd, s))

PipeTo(l, r) == IF r.ok THEN Parsed(pipecmd(l.cmd, r.cmd), r.s) ELSE r
Piped(l) == IF Sees(l, {"|"}) THEN PipeTo(l, parsepipe(After(l))) ELSE l
parsepipe(s) == Piped(parseexec(s))

Backs(r) == IF Sees(r, {"&"}) THEN Backs(Parsed(backcmd(r.cmd), After(r))) ELSE r
Then(l, r) == IF r.ok THEN Parsed(listcmd(l.cmd, r.cmd), r.s) ELSE r
Listed(l) == IF Sees(l, {";"}) THEN Then(l, parseline(After(l))) ELSE l
parseline(s) == Listed(Backs(parsepipe(s)))

Complete(r) == IF Skip(r.s) # <<>> THEN panic ELSE r
parsecmd(s) == Complete(parseline(s))

-----------------------------------------------------------------------------
(* the processes *)

VARIABLES
  buf,            \* main(): the line
  tree,           \* its command, as the child parses it
  ps              \* of a process: where it is, the command it runs as a path in the tree,
                  \* its descriptors, p[] of runcmd(), its parent

vars == <<buf, tree, ps>>

Pid == 0..(NPROC - 1)
Sh == 0
Initproc == -1
FD == 0..(NOFILE - 1)
Closed == <<"closed", <<>>>>
Console == <<"console", <<>>>>
Std == [d \in FD |-> IF d <= 2 THEN Console ELSE Closed]
NoProc == [pc |-> "unused", node |-> <<>>, fd |-> [d \in FD |-> Closed], p |-> <<>>, parent |-> Initproc]

Init == /\ buf = <<>> /\ tree = execcmd
        /\ ps = [i \in Pid |-> IF i = Sh THEN [NoProc EXCEPT !.pc = "prompt", !.fd = Std] ELSE NoProc]

RECURSIVE Sub(_, _)
Sub(cmd, path) == IF path = <<>> THEN cmd ELSE Sub(cmd[Head(path)], Tail(path))
Runs(i, type) == ps[i].pc = "runcmd" /\ Sub(tree, ps[i].node).type = type
Goto(i, l) == ps' = [ps EXCEPT ![i].pc = l] /\ UNCHANGED <<buf, tree>>
Continue(i, field, f) == /\ ps' = [ps EXCEPT ![i].pc = "runcmd", ![i].node = Append(@, field), ![i].fd = f]
                         /\ UNCHANGED <<buf, tree>>

\* fork1(): the child starts at l with command n; a process that cannot fork exits.
Unused == {i \in Pid : ps[i].pc = "unused"}
fork1(i, l, n, next) ==
  IF Unused = {} THEN ps' = [ps EXCEPT ![i].pc = "exit"]
  ELSE ps' = [ps EXCEPT ![i].pc = next, ![Min(Unused)] = [ps[i] EXCEPT !.pc = l, !.node = n, !.parent = i]]

\* main(): a character is typed; a line is run by a child, for which the shell waits.
\* Bound: a behaviour runs one line.
gets(c) == /\ ps[Sh].pc = "prompt" /\ buf' = Append(buf, c)
           /\ Len(buf) < MaxLine \/ \E s \in Scripts : IsPrefix(Append(buf, c), s)
           /\ UNCHANGED <<tree, ps>>
main == /\ ps[Sh].pc = "prompt" /\ buf \in Scripts
        /\ LET r == parsecmd(buf)
           IN  tree' = r.cmd /\ fork1(Sh, IF r.ok THEN "runcmd" ELSE "exit", <<>>, "wait_line")
        /\ UNCHANGED buf

\* exit() closes the descriptors and leaves the children to init, which waits for them.
Exits(i) ==
  /\ ps' = [j \in Pid |->
       IF j = i THEN IF ps[i].parent = Initproc THEN NoProc ELSE [NoProc EXCEPT !.pc = "zombie", !.parent = ps[i].parent]
       ELSE IF ps[j].parent # i THEN ps[j]
       ELSE IF ps[j].pc = "zombie" THEN NoProc ELSE [ps[j] EXCEPT !.parent = Initproc]]
  /\ UNCHANGED <<buf, tree>>
exit(i) == ps[i].pc = "exit" /\ Exits(i)

Children(i) == {j \in Pid : ps[j].parent = i /\ ps[j].pc # "unused"}
Zombies(i) == {j \in Children(i) : ps[j].pc = "zombie"}
wait(i, l, next) ==                      \* a process that waits here has a child
  /\ ps[i].pc = l
  /\ \E j \in Zombies(i) : ps' = [ps EXCEPT ![j] = NoProc, ![i].pc = next]
  /\ UNCHANGED <<buf, tree>>

-----------------------------------------------------------------------------
(* runcmd() *)

Lowest(f) == Min({d \in FD : f[d] = Closed})
close(f, d) == [f EXCEPT ![d] = Closed]
dup(f, d) == [f EXCEPT ![Lowest(f)] = f[d]]

\* exec() fails or starts a program, which reads its input to the end and exits.
run_exec(i) ==
  /\ Runs(i, "EXEC")
  /\ \/ Sub(tree, ps[i].node).argv # <<>> /\ Goto(i, "program")
     \/ Goto(i, "exit")
Writers(i) == {j \in Pid : \E d \in FD : ps[j].fd[d] = <<"w", ps[i].fd[0][2]>>}
Eof(i) == ps[i].fd[0][1] # "r" \/ Writers(i) = {}
program(i) == ps[i].pc = "program" /\ Eof(i) /\ Exits(i)

run_redir(i) ==
  /\ Runs(i, "REDIR")
  /\ LET f == close(ps[i].fd, Sub(tree, ps[i].node).fd)
     IN  Continue(i, "cmd", [f EXCEPT ![Lowest(f)] = <<"file", ps[i].node>>]) \/ Goto(i, "exit")

run_list(i) == /\ Runs(i, "LIST") /\ fork1(i, "runcmd", Append(ps[i].node, "left"), "wait_left")
               /\ UNCHANGED <<buf, tree>>
list_right(i) == ps[i].pc = "list_right" /\ Continue(i, "right", ps[i].fd)

run_back(i) == /\ Runs(i, "BACK") /\ fork1(i, "runcmd", Append(ps[i].node, "cmd"), "exit")
               /\ UNCHANGED <<buf, tree>>

\* pipe(), the two children, then both ends are closed.
run_pipe(i) ==
  /\ Runs(i, "PIPE")
  /\ LET f == ps[i].fd
         r == Lowest(f)
         w == Lowest([f EXCEPT ![r] = Console])
     IN  IF Cardinality({d \in FD : f[d] = Closed}) < 2 THEN Goto(i, "exit")
         ELSE /\ ps' = [ps EXCEPT ![i].pc = "fork_left", ![i].p = <<r, w>>,
                                  ![i].fd = [f EXCEPT ![r] = <<"r", ps[i].node>>, ![w] = <<"w", ps[i].node>>]]
              /\ UNCHANGED <<buf, tree>>
fork_left(i) == ps[i].pc = "fork_left" /\ fork1(i, "left", ps[i].node, "fork_right") /\ UNCHANGED <<buf, tree>>
fork_right(i) == ps[i].pc = "fork_right" /\ fork1(i, "right", ps[i].node, "pipe_close") /\ UNCHANGED <<buf, tree>>
CloseBoth(f, p) == close(close(f, p[1]), p[2])
left(i) == /\ ps[i].pc = "left"
           /\ Continue(i, "left", CloseBoth(dup(close(ps[i].fd, 1), ps[i].p[2]), ps[i].p))
right(i) == /\ ps[i].pc = "right"
            /\ Continue(i, "right", CloseBoth(dup(close(ps[i].fd, 0), ps[i].p[1]), ps[i].p))
bug_pipe_close(i) == ps[i].pc = "pipe_close" /\ Goto(i, "wait_both")
pipe_close(i) == /\ ps[i].pc = "pipe_close"
                 /\ ps' = [ps EXCEPT ![i].pc = "wait_both", ![i].fd = CloseBoth(@, ps[i].p)]
                 /\ UNCHANGED <<buf, tree>>

Next ==
  \/ (\E c \in Char : gets(c)) \/ main \/ wait(Sh, "wait_line", "done")
  \/ \E i \in Pid : \/ run_exec(i) \/ program(i) \/ run_redir(i) \/ run_list(i) \/ list_right(i) \/ run_back(i)
                    \/ run_pipe(i) \/ fork_left(i) \/ fork_right(i) \/ left(i) \/ right(i) \/ pipe_close(i)
                    \/ wait(i, "wait_left", "list_right") \/ wait(i, "wait_both", "wait_last")
                    \/ wait(i, "wait_last", "exit") \/ exit(i)
Spec == Init /\ [][Next]_vars

-----------------------------------------------------------------------------
(* the grammar: the trees that a sequence of tokens stands for *)

RECURSIVE Tokens(_)
Tokens(s) == LET t == gettoken(s) IN IF t.ret = "0" THEN <<>> ELSE <<t>> \o Tokens(t.s)

RECURSIVE Line(_), Job(_), Pipe(_), Simple(_), Group(_)
Upto(ts, n) == SubSeq(ts, 1, n)
At(ts, x) == {k \in 1..Len(ts) : ts[k].ret = x}
Redirs(ts, n) == n >= 2 /\ ts[n].ret = "a" /\ ts[n - 1].ret \in {"<", ">", "+"}
Redirected(tok, file, Cmds) == {redircmd(c, file.word, IF tok.ret = "<" THEN 0 ELSE 1) : c \in Cmds}
Simple(ts) ==
  LET n == Len(ts)
  IN  IF n = 0 THEN {execcmd}
      ELSE IF Redirs(ts, n) THEN Redirected(ts[n - 1], ts[n], Simple(Upto(ts, n - 2)))
      ELSE IF ts[n].ret # "a" THEN {}
      ELSE {AddArg(c, ts[n].word) : c \in {x \in Simple(Upto(ts, n - 1)) : argc(x) + 1 < MAXARGS}}
Group(ts) ==
  LET n == Len(ts)
  IN  IF Redirs(ts, n) THEN Redirected(ts[n - 1], ts[n], Group(Upto(ts, n - 2)))
      ELSE IF n < 2 \/ ts[1].ret # "(" \/ ts[n].ret # ")" THEN {} ELSE Line(SubSeq(ts, 2, n - 1))
Pipe(ts) == Simple(ts) \cup Group(ts) \cup
  UNION {{pipecmd(l, r) : l \in Simple(Upto(ts, k - 1)) \cup Group(Upto(ts, k - 1)), r \in Pipe(From(ts, k + 1))} : k \in At(ts, "|")}
Job(ts) == Pipe(ts) \cup {backcmd(c) : c \in IF Len(ts) \in At(ts, "&") THEN Job(Upto(ts, Len(ts) - 1)) ELSE {}}
Line(ts) == Job(ts) \cup
  UNION {{listcmd(l, r) : l \in Job(Upto(ts, k - 1)), r \in Line(From(ts, k + 1))} : k \in At(ts, ";")}

\* The parser accepts exactly the lines of the grammar, which gives each of them one
\* tree, the one parsecmd() returns: ";" binds less than "&", that less than "|", both
\* operators group to the right, and a redirection belongs to its command or block.
ParsesGrammar == ps[Sh].pc = "prompt" =>
  LET r == parsecmd(buf) IN Line(Tokens(buf)) = IF r.ok THEN {r.cmd} ELSE {}

\* The input and output of the command at a path: of the innermost pipe or redirection.
RECURSIVE Wiring(_, _, _)
Wiring(at, path, f) ==
  LET c == Sub(tree, at)
      g == IF c.type = "REDIR" THEN [f EXCEPT ![c.fd] = <<"file", at>>]
           ELSE IF c.type # "PIPE" THEN f
           ELSE IF Head(path) = "left" THEN [f EXCEPT ![1] = <<"w", at>>] ELSE [f EXCEPT ![0] = <<"r", at>>]
  IN  IF path = <<>> THEN f ELSE Wiring(Append(at, Head(path)), Tail(path), g)

\* Processes that wait for one another for good: for children that all do, or for the end
\* of a pipe that one of them can still write.
Hung(S) == \A i \in S :
  \/ ps[i].pc \in {"wait_line", "wait_left", "wait_both", "wait_last"} /\ Children(i) \subseteq S
  \/ ps[i].pc = "program" /\ ~Eof(i) /\ Writers(i) \cap S # {}

\* Every program of a line runs with the descriptors 0, 1 and 2 that its place in the line
\* gives it and no other, and no set of processes hangs: runcmd() leaves no end of a pipe
\* open that would keep a reader waiting, also when fork() fails in the middle of a pipeline.
Plumbed == /\ \A i \in Pid : ps[i].pc = "program" => ps[i].fd = Wiring(<<>>, ps[i].node, Std)
           /\ \A S \in SUBSET {i \in Pid : ps[i].pc # "unused"} : S # {} => ~Hung(S)
=============================================================================
