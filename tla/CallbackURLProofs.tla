-------------------------- MODULE CallbackURLProofs --------------------------
(***************************************************************************)
(* For every callback_url that ends in /callback, below whatever path, the *)
(* three computations of CallbackURL agree.                                *)
(***************************************************************************)
EXTENDS CallbackURL, SequenceTheorems, TLAPS

LEMMA LastReplaced ==
  ASSUME NEW S, NEW seq \in Seq(S), seq # <<>>, NEW e \in S
  PROVE  Append(SubSeq(seq, 1, Len(seq) - 1), e)[Len(seq)] = e
<1>1. Len(seq) \in Nat /\ Len(seq) # 0
  BY EmptySeq, LenProperties
<1>2. /\ SubSeq(seq, 1, Len(seq) - 1) \in Seq(S)
      /\ Len(SubSeq(seq, 1, Len(seq) - 1)) = Len(seq) - 1
  <2> DEFINE n == Len(seq) - 1
  <2>1. n \in Int /\ n >= 0 /\ n + 1 = Len(seq)
    BY <1>1
  <2>2. \A i \in 1 .. n : seq[i] \in S
    BY <2>1, LenProperties
  <2> HIDE DEF n
  <2>3. /\ SubSeq(seq, 1, n) \in Seq(S)
        /\ Len(SubSeq(seq, 1, n)) = IF 1 <= n THEN n - 1 + 1 ELSE 0
    BY <2>1, <2>2, SubSeqProperties
  <2>4. Len(SubSeq(seq, 1, n)) = n
    BY <2>1, <2>3
  <2> QED
    BY <2>3, <2>4 DEF n
<1> QED
  BY <1>1, <1>2, AppendProperties

\* The webhook's path is the callback's with another last segment.
LEMMA WebhookBeside ==
  ASSUME "webhook" \in Segments, NEW p \in PathType, EndsIn(p, "callback")
  PROVE  /\ CallbackPath(p) = p
         /\ WebhookPath(p) = In(Dir(p), "webhook")
         /\ webhookURLFromCallback(p) = WebhookPath(p)
         /\ resolveCallbackURL(p) = p
         /\ WebhookPath(p) # p
<1>1. p # EmptyPath /\ p.slash = FALSE
  BY SMT DEF EndsIn, EmptyPath, PathType
<1>2. OrCallback(p) = p
  BY <1>1 DEF OrCallback
<1>3. resolveCallbackURL(p) = p
  BY <1>1, SMT DEF resolveCallbackURL, PathType
<1>4. In(Dir(p), "webhook") # p
  <2> DEFINE s == p.segs
  <2>1. s \in Seq(Segments) /\ s # <<>>
    BY SMT DEF EndsIn, PathType
  <2>2. Append(Dir(p), "webhook")[Len(s)] = "webhook"
    BY <2>1, LastReplaced DEF Dir
  <2>3. In(Dir(p), "webhook").segs = Append(Dir(p), "webhook")
    BY DEF In
  <2> QED
    BY <2>2, <2>3 DEF EndsIn
<1> QED
  BY <1>2, <1>3, <1>4 DEF CallbackPath, WebhookPath, webhookURLFromCallback

\* A callback_url that ends in /callback is listened on as it is documented,
\* for pushes and for logins (config.go:24-26, server.go:64-77,
\* helpers.go:72-106).
THEOREM CallbackPathsAgree ==
  ASSUME /\ "webhook" \in Segments
         /\ Paths \subseteq PathType
         /\ \A p \in Paths : EndsIn(p, "callback")
  PROVE  Spec => [](PushesArrive /\ LoginsReturn)
<1> DEFINE Inv == /\ path \in Paths
                  /\ server \in {"down", "listening"}
                  /\ registered \in {NoPath, webhookURLFromCallback(path)}
                  /\ arrived \in {<<"none", "none">>, <<"push", "handleWebhook">>,
                                  <<"login", "handleCallback">>}
<1>1. Init => Inv
  BY SMT DEF Init
<1>2. Inv /\ [Next]_vars => Inv'
  <2> SUFFICES ASSUME Inv, [Next]_vars PROVE Inv'
    OBVIOUS
  <2>1. path \in PathType /\ EndsIn(path, "callback")
    OBVIOUS
  <2>2. path # EmptyPath
    BY <2>1, SMT DEF EndsIn, EmptyPath
  <2>3. CASE Start
    BY <2>1, <2>3, WebhookBeside DEF Start
  <2>4. CASE RegisterBridge
    BY <2>4 DEF RegisterBridge
  <2>5. CASE Push
    <3>1. Route(path, registered) = "handleWebhook"
      BY <2>1, <2>5, WebhookBeside DEF Push, Route
    <3> QED
      BY <2>5, <3>1 DEF Push
  <2>6. CASE Redirect
    <3>1. Route(path, path) = "handleCallback"
      BY <2>1, WebhookBeside DEF Route
    <3> QED
      BY <2>1, <2>2, <2>6, <3>1, WebhookBeside DEF Redirect
  <2>7. CASE UNCHANGED vars
    BY <2>7 DEF vars
  <2> QED
    BY <2>3, <2>4, <2>5, <2>6, <2>7 DEF Next
<1>3. Inv => PushesArrive /\ LoginsReturn
  BY SMT DEF PushesArrive, LoginsReturn
<1> QED
  BY <1>1, <1>2, <1>3, PTL DEF Spec
=============================================================================
