----------------------------- MODULE CallbackURL -----------------------------
(***************************************************************************)
(* What becomes of callback_url in connector mode: the paths the callback  *)
(* server listens on (pkg/connector/server.go), the redirect URI of a      *)
(* login and the webhook URL registered with WordPress                     *)
(* (pkg/connector/helpers.go) are computed from it in three places.  A     *)
(* path is its segments and whether a slash follows them; scheme, host,    *)
(* query and repeated slashes are left out.                                *)
(***************************************************************************)
EXTENDS Sequences, Integers

CONSTANTS
    Segments,  \* of a path, "callback" and "webhook" among them
    Paths,     \* the paths callback_url may have, a subset of PathType
    NoPath     \* nothing registered yet

PathType == [segs : Seq(Segments), slash : BOOLEAN]

VARIABLES
    path,        \* the path of callback_url
    server,      \* the callback server
    registered,  \* webhook path WordPress was given
    arrived      \* which request came last, and which handler got it

vars == <<path, server, registered, arrived>>

EmptyPath == [segs |-> <<>>, slash |-> FALSE]
Root      == [segs |-> <<>>, slash |-> TRUE]

EndsIn(p, s) == ~p.slash /\ p.segs # <<>> /\ p.segs[Len(p.segs)] = s

Dir(p) == SubSeq(p.segs, 1, Len(p.segs) - 1)

In(dir, s) == [segs |-> Append(dir, s), slash |-> FALSE]

OrCallback(p) == IF p = EmptyPath THEN In(<<>>, "callback") ELSE p

\* The redirect URI of a login.
resolveCallbackURL(p) == [p EXCEPT !.slash = FALSE]

\* What WordPress is given, beside the callback or below it.
webhookURLFromCallback(p) ==
    LET q == OrCallback(p)
    IN  IF EndsIn(q, "callback") THEN In(Dir(q), "webhook") ELSE In(q.segs, "webhook")

\* What the server listens on.
CallbackPath(p) == OrCallback(p)

WebhookPath(p) ==
    LET q == OrCallback(p)
    IN  IF EndsIn(q, "callback") THEN In(Dir(q), "webhook") ELSE In(<<>>, "webhook")

\* http.ServeMux: a pattern with a slash at the end gets everything below it,
\* and a request for the same path without the slash is redirected there.
Route(p, request) ==
    LET callback == CallbackPath(p)
        n        == Len(callback.segs)
    IN  IF request = WebhookPath(p) THEN "handleWebhook"
        ELSE IF \/ request = callback
                \/ /\ callback.slash
                   /\ n <= Len(request.segs)
                   /\ SubSeq(request.segs, 1, n) = callback.segs
             THEN "handleCallback"
        ELSE "not found"

-----------------------------------------------------------------------------
Init ==
    /\ path \in Paths
    /\ server = "down"
    /\ registered = NoPath
    /\ arrived = <<"none", "none">>

\* Registering one path twice with a ServeMux panics.
Start ==
    /\ server = "down"
    /\ server' = IF CallbackPath(path) = WebhookPath(path) THEN "panicked" ELSE "listening"
    /\ UNCHANGED <<path, registered, arrived>>

RegisterBridge ==
    /\ server = "listening"
    /\ registered' = webhookURLFromCallback(path)
    /\ UNCHANGED <<path, server, arrived>>

\* WordPress pushes a message.
Push ==
    /\ server = "listening"
    /\ registered # NoPath
    /\ arrived' = <<"push", Route(path, registered)>>
    /\ UNCHANGED <<path, server, registered>>

\* WordPress redirects a browser; an empty path is requested as "/".
Redirect ==
    LET uri == resolveCallbackURL(path)
    IN  /\ server = "listening"
        /\ arrived' = <<"login", Route(path, IF uri = EmptyPath THEN Root ELSE uri)>>
        /\ UNCHANGED <<path, server, registered>>

Next == Start \/ RegisterBridge \/ Push \/ Redirect

Spec == Init /\ [][Next]_vars

-----------------------------------------------------------------------------
\* "Callback URL where the bridge listens for webhook pushes from WordPress."
\* (config.go:24): a push to the URL that was made of it is handled as one.
PushesArrive == arrived[1] = "push" => arrived[2] = "handleWebhook"

\* "Also used as the PKCE redirect URI." (config.go:25): a browser WordPress
\* sends back is handled as a login's answer.
LoginsReturn == arrived[1] = "login" => arrived[2] = "handleCallback"
=============================================================================
