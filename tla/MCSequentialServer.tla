------------------------- MODULE MCSequentialServer -------------------------
(* Instances of SequentialServer for TLC.                                   *)
EXTENDS SequentialServer

CONSTANTS c1, c2

Page == <<"/", "a", ".html">>
Script == <<"/", "cgi">>
Dir == <<"/", "dir">>
Home == <<"/", "index", ".html">>
Picture == <<"/", "a", ".gif">>

Empty == <<"/", "empty">>
Secret == <<"/", "secret">>

MCFiles ==
  [f \in {Page, Script, Dir, Home, Picture, Empty, Secret, <<>>} |->
    CASE f = Page -> [size |-> 3, mode |-> {"r"}, allowed |-> {"r"}]
      [] f = Script -> [size |-> 1, mode |-> {"r", "x"}, allowed |-> {"r", "x"}]
      [] f = Home -> [size |-> 2, mode |-> {"r"}, allowed |-> {"r"}]
      [] f = Picture -> [size |-> 1, mode |-> {"r"}, allowed |-> {"r"}]
      [] f = Empty -> [size |-> 0, mode |-> {"r"}, allowed |-> {"r"}]
      [] f = Secret -> [size |-> 2, mode |-> {"r"}, allowed |-> {}]
      [] f \in {Dir, <<>>} -> [size |-> 2, mode |-> {}, allowed |-> {}]]

(* Each branch of request_parse_uri and of stat's tests, with none, one and *)
(* two question marks, and "cgi" before, after and without one.             *)
MCRequested ==
  { NotGet, NoUri, Page, Picture, Dir, <<"/">>, Page \o <<"?", "x">>, Page \o <<"?", "cgi">>,
    Script, Script \o <<"?">>, Script \o <<"?", "x">>, Script \o <<"?", "x", "?">>,
    Script \o <<"/">> }

(* A file that changes, an empty one, one that the server may not read, a   *)
(* script, a directory, and a request line with no URI.                     *)
Disturbed == { Page, Empty, Secret, Script, Dir, NoUri }
VolatileFiles == {Page}
=============================================================================
