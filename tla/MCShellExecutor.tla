-------------------------- MODULE MCShellExecutor --------------------------
(* Model-checking instance of ShellExecutor: a submodule two parts deep     *)
(* that has a submodule of its own.  In behaviours of its own the agent     *)
(* uses the other tool that reads the source, SourceReader.                 *)
EXTENDS ShellExecutor, SourceReader

CONSTANTS c1, c2, root, sub, nested, p, q, show, grep

VARIABLE tool  \* the tool this behaviour explores

Gitlinks == {[parent |-> root, path |-> <<p, q>>, commit |-> sub],
             [parent |-> sub, path |-> <<p>>, commit |-> nested]}

Git(alias, read) == [program |-> "git", alias |-> alias, read |-> read]
Workspace == [program |-> "workspace", alias |-> <<>>, read |-> "malformed"]

\* The root; a nested submodule, which is unresolved when a checkout is
\* missing; a path that needs more candidates than are allowed; arguments that
\* are refused.
SomeBatches ==
  {<<Git(<<>>, grep), Git(<<p, q, p>>, show)>>,
   <<Workspace, Git(<<>>, "malformed")>>,
   <<Git(<<p, q, p, q>>, show)>>}

\* With 3 characters and 2 lines to a page: an empty file; the limit of lines;
\* lines of which two do not fit; a line that is cut, first or not.
SomeTexts == {<<>>, <<1, 1, 1>>, <<2, 2>>, <<4, 1, 4>>}

ToolInit ==
  \/ tool = "shell" /\ Init /\ ReaderInit /\ text = <<>>
  \/ tool = "reader" /\ Init /\ available = Link /\ ReaderInit

ToolNext ==
  /\ UNCHANGED tool
  /\ \/ tool = "shell" /\ Next /\ UNCHANGED readerVars
     \/ tool = "reader" /\ ReaderNext /\ UNCHANGED vars

ToolSpec == ToolInit /\ [][ToolNext]_<<tool, vars, readerVars>> /\ Fairness
===========================================================================
