---------------------------- MODULE MCContentFiles ----------------------------
(* Small instances of ContentFiles. *)
EXTENDS ContentFiles, TLC

CONSTANTS j1, j2, j3, doc1, old1

Make(files) == [kind |-> "create", post |-> doc1, files |-> files, direct |-> FALSE]
MakeDirect == [kind |-> "create", post |-> doc1, files |-> {}, direct |-> TRUE]
Replace(files) == [kind |-> "replace", post |-> doc1, files |-> files, direct |-> FALSE]
Save(files) == [kind |-> "save", post |-> doc1, files |-> files, direct |-> FALSE]
SaveDirect == [kind |-> "save", post |-> doc1, files |-> {}, direct |-> TRUE]
Add(files) == [kind |-> "add", post |-> doc1, files |-> files, direct |-> files = {}]
Revise(files) == [kind |-> "revise", post |-> doc1, files |-> files, direct |-> files = {}]
Withdraw == [kind |-> "withdraw", post |-> doc1, files |-> {}, direct |-> FALSE]
Erase == [kind |-> "delete", post |-> doc1, files |-> {}, direct |-> FALSE]

Nothing == [posts |-> {}, rows |-> {}, file |-> doc1 :> None, listed |-> {}]
Log == [posts |-> {doc1}, rows |-> {[post |-> doc1, url |-> old1]}, file |-> doc1 :> None, listed |-> {}]
Text == [posts |-> {doc1}, rows |-> {}, file |-> doc1 :> old1, listed |-> {}]
Known(world) == [world EXCEPT !.listed = {old1}]

World(tasks, world, faults, cites) ==
  [task |-> tasks, posts |-> world.posts, rows |-> world.rows, file |-> world.file,
   listed |-> world.listed, faults |-> faults, cites |-> cites]

Both(a, b, world, faults, cites) == World(j1 :> a @@ j2 :> b, world, faults, cites)
Three(a, b, c, world, faults) == World(j1 :> a @@ j2 :> b @@ j3 :> c, world, faults, 0)

\* A form sent twice; a creation beside a deletion, a replacement or a save; two
\* replacements; saves with and without a document, by either way of uploading;
\* replacement and save beside a deletion; of files registered or not.
MCScenario == {
  Both(Make({0, 1}), Make({1}), Nothing, 2, 0),
  Both(Make({1}), Erase, Nothing, 2, 0),
  Both(Make({1}), Replace({1}), Nothing, 1, 1),
  Both(Make({0}), Save({0}), Nothing, 2, 0),
  Both(Replace({1}), Replace({1}), Log, 2, 0),
  Both(Replace({1, 2}), Erase, Known(Log), 1, 1),
  Both(Replace({1}), Erase, Log, 2, 0),
  Both(Save({0}), Save({}), Text, 1, 0),
  Both(Save({0}), Save({0}), Known(Text), 1, 1),
  Both(Save({0}), Erase, Text, 2, 0),
  Both(MakeDirect, Erase, Nothing, 1, 1),
  Both(SaveDirect, Save({}), Known(Text), 1, 0),
  Both(MakeDirect, SaveDirect, Nothing, 1, 0),
  Three(Add({}), Revise({0}), Withdraw, Nothing, 1),
  Three(Revise({0}), Revise({}), Withdraw, Text, 1),
  Both(Add({0}), Revise({0}), Nothing, 1, 1),
  Three(Make({1}), Make({1}), Erase, Nothing, 1),
  Three(Make({1}), Make({1}), Replace({1}), Nothing, 1),
  Three(Replace({1}), Replace({1}), Erase, Log, 1),
  Three(Save({0}), Save({}), Erase, Text, 1),
  Three(Make({0}), Make({0}), Erase, Nothing, 1)}
=============================================================================
