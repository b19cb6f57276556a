------------------------------ MODULE MCStartup ------------------------------
(* The TLC instance of Startup, and of the names it reads: ImageNames. *)
EXTENDS ImageNames

Hosts == {NoName, <<"docker.io">>, <<"index.docker.io">>, <<"registry-1.docker.io">>,
          <<"localhost">>, <<"localhost", ":", "5000">>, <<"ghcr.io">>}
Paths == {<<"app">>, <<"library", "/", "app">>, <<"team", "/", "app", "/", "web">>}

(* With and without a tag and a digest, on every kind of host. *)
MCReferences ==
    [host : Hosts, path : Paths, tag : {NoName, <<"1.2">>},
     digest : {NoName, <<"sha256", ":", "a">>}]

MCDotted == Hubs \cup {"ghcr.io", "1.2"}
MCWords ==
    MCDotted \cup Separators
        \cup {"localhost", "5000", "library", "app", "team", "web", "sha256", "a"}
MCDigests == {<<"sha256", ":", "a">>, <<"sha256", ":", "b">>}
=============================================================================
