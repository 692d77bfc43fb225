------------------------------ MODULE MCRestClient ------------------------------
(* A small instance of TerminalStart: applications that create, delete,    *)
(* link, list and append, each with the other owners and writers between,  *)
(* and a terminal that starts; pages that break the contract, and a        *)
(* Retry-After beyond the maximum.                                         *)
EXTENDS TerminalStart

BatchSet == { <<0, 1>>, <<0, 2>> }    \* the second is not contiguous
ExpectationSet == {NoSeq, 0}
AfterSet == {NoDelay, 30}

Page(authorizing, ids, next) ==
  [authorizing |-> authorizing, ids |-> ids, next |-> next, honest |-> FALSE]

\* A page that comes again, one of another link, one that names a link twice.
PageSet == { Page(Owner, <<"reader">>, 2), Page("reader", <<Owner>>, 1),
             Page(Owner, <<"x", "x">>, NoCursor) }

ProgramSet ==
  { <<"create_stream", "delete_stream">>, <<"create_link", "revoke_link">>,
    <<"list_all_links">>, <<"append_records", "append_records">>,
    <<"get_stream">>, <<"update_stream", "delete_stream">> }
=============================================================================
