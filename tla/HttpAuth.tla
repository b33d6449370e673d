------------------------------ MODULE HttpAuth ------------------------------
(***************************************************************************)
(* The authentication policy of HTTP requests (StandardHTTPAuthentication) *)
(* as pure operators: which credentials are tried for a URL, when the next *)
(* one is tried, and which response the caller gets.  The globs that match *)
(* the URL are given as the sequence `matching' of their credentials, in   *)
(* the order of the configuration.                                         *)
(***************************************************************************)
EXTENDS Naturals, Sequences

Anonymous == "anonymous"

\* What a server may answer: 2xx, 401/403, 404, 5xx.
Statuses == {"ok", "denied", "missing", "broken"}

\* Faulty variant: a 404 is taken for an answer.
RefusedStrict(status) == status = "denied"

\* is_client_error: many servers answer 404 when credentials are missing.
Refused(status) == status \in {"denied", "missing"}

\* RestrictAuthentication over SequenceAuthentication: without a matching glob
\* the request goes out unauthenticated; with one, first unauthenticated and
\* then with its credential; with several, each of them in turn.
Attempts(matching) ==
    IF matching = <<>> THEN <<Anonymous>>
    ELSE [i \in 1..(2 * Len(matching)) |->
            IF i % 2 = 1 THEN Anonymous ELSE matching[i \div 2]]

\* The response to fall back on is the one to the first option.
Remembered(matching) == IF matching = <<>> THEN 1 ELSE 2

\* try_into_publish_bearer_auth_map: only bearer tokens serve to publish.
BearerOnly(matching, bearer) == SelectSeq(matching, LAMBDA c : c \in bearer)

\* GlobMap::lookup: none, the one, or several values for a URL.
Lookup(matching) ==
    CASE Len(matching) = 0 -> "notFound"
      [] Len(matching) = 1 -> "found"
      [] Len(matching) > 1 -> "ambiguous"

\* What the documentation of RestrictAuthentication says of the result: the
\* first response outside 4xx, and if there is none the first option's.
Result(matching, server) ==
    LET tried == Attempts(matching)
        answered == {i \in DOMAIN tried : server[tried[i]] \notin {"denied", "missing"}}
    IN  IF answered = {} THEN server[tried[Remembered(matching)]]
        ELSE server[tried[CHOOSE i \in answered : \A j \in answered : i <= j]]

=============================================================================
