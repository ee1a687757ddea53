----------------------------- MODULE MCWServer ------------------------------
(* Instances of WServer for TLC.                                            *)
EXTENDS WServer

CONSTANTS c1, c2, c3, w1, w2

Page == <<"/", "page", ".html">>
Note == <<"/", "note">>
Big == <<"/", "big", ".html">>
Huge == <<"/", "huge">>
Empty == <<"/", "empty">>
Script == <<"/", "spin", "cgi">>
Dir == <<"/", "dir">>
Secret == <<"/", "secret">>

MCFiles ==
  [f \in {Page, Note, Big, Huge, Empty, Script, Dir, Secret, <<>>} |->
    CASE f = Page -> [size |-> 1, mode |-> {"r"}, allowed |-> {"r"}]
      [] f = Note -> [size |-> 2, mode |-> {"r"}, allowed |-> {"r"}]
      [] f = Big -> [size |-> 3, mode |-> {"r"}, allowed |-> {"r"}]
      [] f = Huge -> [size |-> 5, mode |-> {"r"}, allowed |-> {"r"}]
      [] f = Empty -> [size |-> 0, mode |-> {"r"}, allowed |-> {"r"}]
      [] f = Script -> [size |-> 1, mode |-> {"r", "x"}, allowed |-> {"r", "x"}]
      [] f = Secret -> [size |-> 1, mode |-> {"r"}, allowed |-> {}]
      [] f \in {Dir, <<>>} -> [size |-> 1, mode |-> {}, allowed |-> {}]]

(* A document, and a script with arguments. *)
Calm == {Big, Script \o <<"?", "x">>}
(* A file that changes; one larger than a write is sure to take, one too    *)
(* large for an int, one that the server may not read; a script, a          *)
(* directory, another method, and a request line with no URI.               *)
Disturbed == {Note, Big, Huge, Secret, Script, Dir, NotGet, NoUri}
VolatileFiles == {Note}
PageOnly == {Page}
PageAndEmpty == {Page, Empty}
=============================================================================
