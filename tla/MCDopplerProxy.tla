--------------------------- MODULE MCDopplerProxy ---------------------------
(* DopplerProxy for model checking. *)
EXTENDS DopplerProxy

CONSTANTS
    admin, user,    \* tokens
    guid, name      \* app IDs, with and without the form of a GUID

ModelAccess == {<<user, guid>>, <<user, name>>}

Firehose(h, c) == [endpoint |-> "firehose", app |-> guid, header |-> h, cookie |-> c]
Stream(a, h, c) == [endpoint |-> "stream", app |-> a, header |-> h, cookie |-> c]

(* Each endpoint, by clients that may and that may not have it, with the token *)
(* in either place; and one client without a token and without access control. *)
ModelCases ==
    {Firehose(admin, user), Firehose(Empty, user), Firehose(Empty, Malformed),
     Stream(guid, Empty, user), Stream(name, user, Empty), Stream(guid, admin, user),
     Stream(guid, Empty, Empty)} \X {FALSE}
        \cup {<<Firehose(Empty, Malformed), TRUE>>}
=============================================================================
