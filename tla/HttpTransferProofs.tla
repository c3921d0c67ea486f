------------------------- MODULE HttpTransferProofs -------------------------
(***************************************************************************)
(* The safety properties of HttpTransfer, for any set of bytes and any     *)
(* number and size of requests.                                            *)
(***************************************************************************)
EXTENDS HttpTransfer, SequenceTheorems, TLAPS

-----------------------------------------------------------------------------
(* The write buffer and the types. *)

\* One callback extends a buffer that holds `body' to one that holds `body'
\* and the new bytes, whatever the sizes (receive_curl_response).
LEMMA ReceiveExtends ==
  ASSUME NEW buffer, NEW body \in Seq(Bytes), NEW chunk \in Seq(Bytes),
         buffer.size = Len(body),
         buffer.data # <<>> => buffer.data = body \o <<Nul>>,
         buffer.data = <<>> => body = <<>>
  PROVE  LET b == receive_curl_response(buffer, chunk)
         IN  /\ b.size = Len(body \o chunk)
             /\ b.data = (body \o chunk) \o <<Nul>>
             /\ b.data # <<>>
             /\ b.data \in Seq(Bytes \cup {Nul})
<1>1. body \in Seq(Bytes \cup {Nul}) /\ chunk \in Seq(Bytes \cup {Nul})
      /\ <<Nul>> \in Seq(Bytes \cup {Nul})
  OBVIOUS
<1>2. SubSeq(buffer.data, 1, buffer.size) = body
  <2>1. CASE body = <<>>
    <3>1. Len(body) = 0
      BY <2>1
    <3> QED BY <2>1, <3>1, SubSeqEmpty
  <2>2. CASE body # <<>>
    <3>1. Len(body) \in Nat \ {0}
      BY <2>2
    <3>2. SubSeq(body \o <<Nul>>, 1, Len(body)) = SubSeq(body, 1, Len(body))
      BY <1>1, <3>1, SubSeqOfConcat1
    <3>3. SubSeq(body, 1, Len(body)) = body
      BY SubSeqFull
    <3> QED BY <2>2, <3>2, <3>3
  <2> QED BY <2>1, <2>2
<1>3. Len(body \o chunk) = Len(body) + Len(chunk)
  BY ConcatProperties
<1>4. (body \o chunk) \o <<Nul>> \in Seq(Bytes \cup {Nul})
      /\ (body \o chunk) \o <<Nul>> # <<>>
  <2>1. body \o chunk \in Seq(Bytes \cup {Nul})
    BY <1>1, ConcatProperties
  <2>2. (body \o chunk) \o <<Nul>> \in Seq(Bytes \cup {Nul})
        /\ Len((body \o chunk) \o <<Nul>>) = Len(body \o chunk) + Len(<<Nul>>)
    BY <1>1, <2>1, ConcatProperties
  <2>3. Len(<<Nul>>) = 1 /\ Len(<<>>) = 0 /\ Len(body \o chunk) \in Nat
    BY <2>1
  <2> QED BY <2>2, <2>3
<1> QED BY <1>2, <1>3, <1>4 DEF receive_curl_response

BodyInv == TypeOK /\ BufferIsBody

\* Options whose pointers belong to the first n requests.
OptionsUpTo(n) ==
  [flags : SUBSET Flags, httppost : 0 .. n, httpheader : 0 .. n,
   writedata : 0 .. n]

\* Switching options on and pointing others to the memory of a request so far
\* made leaves well typed options.
LEMMA OptionsExcept ==
  ASSUME NEW n \in Nat, NEW c \in OptionsUpTo(n), NEW on \in SUBSET Flags,
         NEW form \in 0 .. n, NEW header \in 0 .. n
  PROVE  /\ [c EXCEPT !.writedata = n, !.flags = @ \cup on] \in OptionsUpTo(n)
         /\ [c EXCEPT !.flags = @ \cup on, !.httppost = form,
                      !.httpheader = header] \in OptionsUpTo(n)
         /\ [c EXCEPT !.flags = @ \cup on, !.httpheader = header]
              \in OptionsUpTo(n)
<1>1. c.flags \cup on \in SUBSET Flags /\ n \in 0 .. n
  BY DEF OptionsUpTo
<1>2. ASSUME NEW f \in SUBSET Flags
      PROVE  /\ [c EXCEPT !.writedata = n, !.flags = f] \in OptionsUpTo(n)
             /\ [c EXCEPT !.flags = f, !.httppost = form,
                          !.httpheader = header] \in OptionsUpTo(n)
             /\ [c EXCEPT !.flags = f, !.httpheader = header] \in OptionsUpTo(n)
  BY <1>1 DEF OptionsUpTo
<1> QED BY <1>1, <1>2

\* The options all three functions set keep the handle well typed.
LEMMA SetReceiverTyped ==
  ASSUME TypeOK
  PROVE  /\ request \in Nat
         /\ SetReceiver(curl, request + 1) \in OptionsUpTo(request + 1)
<1>1. request \in Nat /\ curl \in OptionsUpTo(request + 1)
  BY BoundsAssumption DEF TypeOK, OptionsUpTo
<1>2. ForceIpv4 \subseteq Flags
  BY DEF ForceIpv4, Flags
<1>3. request + 1 \in Nat /\ 0 \in 0 .. request + 1
  BY <1>1
<1> QED BY <1>1, <1>2, <1>3, OptionsExcept, Zenon DEF SetReceiver

LEMMA BodyInvInit == Init => BodyInv
<1> SUFFICES ASSUME Init PROVE BodyInv
  OBVIOUS
<1> QED BY BoundsAssumption DEF Init, BodyInv, TypeOK, BufferIsBody, EmptyBuffer,
           CurlDefaults, Callers, PointerOptions

\* Starting a request of any of the three functions keeps the types.
LEMMA BeginTyped ==
  ASSUME BodyInv, NEW f \in Callers, NEW options,
         options \in OptionsUpTo(request + 1),
         Begin(f, options)
  PROVE  BodyInv'
<1>1. live' \subseteq PointerOptions \X (1 .. request')
  <2>1. Allocated(f, request + 1) \subseteq PointerOptions \X (1 .. request + 1)
    BY DEF BodyInv, TypeOK, Callers, Allocated, PointerOptions
  <2>2. live \subseteq PointerOptions \X (1 .. request + 1)
    BY DEF BodyInv, TypeOK
  <2> QED BY <2>1, <2>2 DEF Begin
<1>2. request' \in 0 .. MaxRequests
  BY BoundsAssumption DEF BodyInv, TypeOK, Begin
<1>3. /\ html_response'.data = <<>>
      /\ html_response'.size = 0
      /\ delivered' = <<>>
  BY DEF Begin, EmptyBuffer
<1>4. Len(delivered') = 0 /\ html_response'.data \in Seq(Bytes \cup {Nul})
  BY <1>3
<1> QED BY <1>1, <1>2, <1>3, <1>4, BoundsAssumption
        DEF BodyInv, TypeOK, BufferIsBody, Begin, Callers, OptionsUpTo

LEMMA BodyInvStep == BodyInv /\ [Next]_vars => BodyInv'
<1> SUFFICES ASSUME BodyInv, [Next]_vars PROVE BodyInv'
  OBVIOUS
<1> USE BoundsAssumption
<1>1. CASE read_url
  <2>1. OptionsOfReadUrl(curl, request + 1) \in OptionsUpTo(request + 1)
    BY SetReceiverTyped DEF BodyInv, OptionsOfReadUrl
  <2> QED BY <1>1, <2>1, BeginTyped DEF read_url, Callers
<1>2. CASE post_form
  <2>1. OptionsOfPostForm(curl, request + 1) \in OptionsUpTo(request + 1)
    <3>1. SetReceiver(curl, request + 1) \in OptionsUpTo(request + 1)
          /\ request + 1 \in Nat
      BY SetReceiverTyped DEF BodyInv
    <3>2. {"post"} \in SUBSET Flags
      BY DEF Flags
    <3>3. 0 \in 0 .. request + 1 /\ request + 1 \in 0 .. request + 1
      BY <3>1
    <3> QED BY <3>1, <3>2, <3>3, OptionsExcept, Zenon DEF OptionsOfPostForm
  <2> QED BY <1>2, <2>1, BeginTyped DEF post_form, Callers
<1>3. CASE send_gtasks_data
  <2>1. OptionsOfSendGtasksData(curl, request + 1) \in OptionsUpTo(request + 1)
    <3>1. SetReceiver(curl, request + 1) \in OptionsUpTo(request + 1)
          /\ request + 1 \in Nat
      BY SetReceiverTyped DEF BodyInv
    <3>2. {"customrequest"} \in SUBSET Flags
      BY DEF Flags
    <3>3. 0 \in 0 .. request + 1 /\ request + 1 \in 0 .. request + 1
      BY <3>1
    <3> QED BY <3>1, <3>2, <3>3, OptionsExcept, Zenon DEF OptionsOfSendGtasksData
  <2> QED BY <1>3, <2>1, BeginTyped DEF send_gtasks_data, Callers
<1>4. CASE \E n \in 0 .. MaxBody : \E chunk \in [1 .. n -> Bytes] : Deliver(chunk)
  <2>1. PICK n \in 0 .. MaxBody : \E chunk \in [1 .. n -> Bytes] : Deliver(chunk)
    BY <1>4
  <2>2. PICK chunk \in [1 .. n -> Bytes] : Deliver(chunk)
    BY <2>1
  <2>3. chunk \in Seq(Bytes)
    <3>1. n \in Nat
      OBVIOUS
    <3> QED BY <3>1, <2>2
  <2>4. /\ html_response'.size = Len(delivered')
        /\ html_response'.data = delivered' \o <<Nul>>
        /\ html_response'.data # <<>>
        /\ html_response'.data \in Seq(Bytes \cup {Nul})
    <3>1. delivered \in Seq(Bytes)
      BY DEF BodyInv, TypeOK
    <3> QED BY <2>2, <2>3, <3>1, ReceiveExtends DEF Deliver, BodyInv, BufferIsBody
  <2>5. delivered' \in Seq(Bytes) /\ Len(delivered') = Len(delivered) + Len(chunk)
    BY <2>2, <2>3, ConcatProperties DEF Deliver, BodyInv, TypeOK
  <2>6. html_response'.size \in 0 .. MaxBody
    <3>1. Len(delivered) \in Nat /\ Len(chunk) \in Nat
      BY <2>3 DEF BodyInv, TypeOK
    <3>2. Len(delivered) + Len(chunk) <= MaxBody
      BY <2>2 DEF Deliver
    <3> QED BY <2>4, <2>5, <3>1, <3>2
  <2> QED BY <2>2, <2>4, <2>5, <2>6 DEF Deliver, BodyInv, TypeOK, BufferIsBody
<1>5. CASE \E code \in {"ok", "error"} : EndTransfer(code)
  BY <1>5 DEF EndTransfer, BodyInv, TypeOK, BufferIsBody
<1>6. CASE Return
  <2>1. curl' \in [flags : SUBSET Flags, httppost : 0 .. request,
                   httpheader : 0 .. request, writedata : 0 .. request]
    BY <1>6 DEF Return, CurlDefaults, BodyInv, TypeOK
  <2>2. live' \subseteq PointerOptions \X (1 .. request)
    BY <1>6 DEF Return, BodyInv, TypeOK
  <2> QED BY <1>6, <2>1, <2>2 DEF Return, BodyInv, TypeOK, BufferIsBody
<1>7. CASE Finished \/ UNCHANGED vars
  BY <1>7 DEF Finished, vars, BodyInv, TypeOK, BufferIsBody
<1> QED BY <1>1, <1>2, <1>3, <1>4, <1>5, <1>6, <1>7 DEF Next

\* Every state is well typed: the buffer never claims more than the reply.
THEOREM TypeCorrect == Spec => []TypeOK
<1>1. BodyInv => TypeOK
  BY DEF BodyInv
<1> QED BY <1>1, BodyInvInit, BodyInvStep, PTL DEF Spec

\* However the reply is cut into callbacks of receive_curl_response, the
\* buffer holds the bytes received and one terminator.
THEOREM BufferCorrect == Spec => []BufferIsBody
<1>1. BodyInv => BufferIsBody
  BY DEF BodyInv
<1> QED BY <1>1, BodyInvInit, BodyInvStep, PTL DEF Spec

-----------------------------------------------------------------------------
(* The options of the handle. *)

\* What f sets on a handle without options for its request n.
OptionsOf(f, n) ==
  CASE f = "read_url"         -> OptionsOfReadUrl(CurlDefaults, n)
    [] f = "post_form"        -> OptionsOfPostForm(CurlDefaults, n)
    [] f = "send_gtasks_data" -> OptionsOfSendGtasksData(CurlDefaults, n)

\* The invariant behind the properties of a transfer: between two requests the
\* handle is as new and nothing allocated for it is left, so that the options
\* of a transfer are those its own caller set.
HandleInv ==
  /\ pc = "idle" => curl = CurlDefaults /\ live = {}
  /\ pc # "idle" =>
       /\ caller \in Callers
       /\ live = Allocated(caller, request)
       /\ curl = OptionsOf(caller, request)

LEMMA HandleInvInit == Init => HandleInv
  BY DEF Init, HandleInv

\* Each function finds the handle as new and sets its own options on it.
LEMMA BeginHandle ==
  ASSUME HandleInv, NEW f \in Callers, NEW options,
         curl = CurlDefaults => options = OptionsOf(f, request + 1),
         Begin(f, options)
  PROVE  HandleInv'
<1>1. /\ caller' = f
      /\ request' = request + 1
      /\ ipv4_only' = ipv4_only
      /\ pc' = "perform"
  BY DEF Begin
<1>2. curl' = OptionsOf(f, request + 1) /\ live' = Allocated(f, request + 1)
  BY DEF Begin, HandleInv
<1>3. curl' = OptionsOf(caller, request)'
  BY <1>1, <1>2 DEF OptionsOf, OptionsOfReadUrl, OptionsOfPostForm,
     OptionsOfSendGtasksData, SetReceiver, ForceIpv4
<1> QED BY <1>1, <1>2, <1>3 DEF HandleInv

LEMMA HandleInvStep == HandleInv /\ [Next]_vars => HandleInv'
<1> SUFFICES ASSUME HandleInv, [Next]_vars PROVE HandleInv'
  OBVIOUS
<1>1. CASE read_url
  BY <1>1, BeginHandle DEF read_url, OptionsOf, Callers
<1>2. CASE post_form
  BY <1>2, BeginHandle DEF post_form, OptionsOf, Callers
<1>3. CASE send_gtasks_data
  BY <1>3, BeginHandle DEF send_gtasks_data, OptionsOf, Callers
<1>4. ASSUME UNCHANGED <<ipv4_only, curl, live, caller, request>>,
             pc # "idle", pc' # "idle"
      PROVE  HandleInv'
  BY <1>4 DEF HandleInv, OptionsOf, OptionsOfReadUrl, OptionsOfPostForm,
     OptionsOfSendGtasksData, SetReceiver, ForceIpv4
<1>5. CASE \E n \in 0 .. MaxBody : \E chunk \in [1 .. n -> Bytes] : Deliver(chunk)
  BY <1>4, <1>5 DEF Deliver
<1>6. CASE \E code \in {"ok", "error"} : EndTransfer(code)
  BY <1>4, <1>6 DEF EndTransfer
<1>7. CASE Return
  BY <1>7 DEF Return, HandleInv
<1>8. CASE Finished \/ UNCHANGED vars
  <2>1. UNCHANGED <<ipv4_only, curl, live, caller, request>> /\ pc' = pc
    BY <1>8 DEF Finished, vars
  <2>2. CASE pc = "idle"
    BY <2>1, <2>2 DEF HandleInv
  <2>3. CASE pc # "idle"
    BY <1>4, <2>1, <2>3
  <2> QED BY <2>2, <2>3
<1> QED BY <1>1, <1>2, <1>3, <1>5, <1>6, <1>7, <1>8 DEF Next

\* What each function finds set during its own transfer.
LEMMA OptionsOfCaller ==
  ASSUME NEW f \in Callers, NEW n
  PROVE  LET c == OptionsOf(f, n)
         IN  /\ c.flags = ForceIpv4 \cup
                   (CASE f = "read_url"         -> {}
                      [] f = "post_form"        -> {"post"}
                      [] f = "send_gtasks_data" -> {"customrequest"})
             /\ c.httppost = IF f = "post_form" THEN n ELSE 0
             /\ c.httpheader = IF f = "send_gtasks_data" THEN n ELSE 0
             /\ c.writedata = n
<1>1. CASE f = "read_url"
  BY <1>1 DEF OptionsOf, OptionsOfReadUrl, SetReceiver, CurlDefaults
<1>2. CASE f = "post_form"
  BY <1>2 DEF OptionsOf, OptionsOfPostForm, SetReceiver, CurlDefaults
<1>3. CASE f = "send_gtasks_data"
  BY <1>3 DEF OptionsOf, OptionsOfSendGtasksData, SetReceiver, CurlDefaults
<1> QED BY <1>1, <1>2, <1>3 DEF Callers

\* No transfer follows an option into memory an earlier request freed: the
\* reset at the end of read_url, post_form and send_gtasks_data forgets every
\* pointer they set.
THEOREM OptionsNeverDangle == Spec => []NoDanglingOption
<1>1. HandleInv => NoDanglingOption
  <2> SUFFICES ASSUME HandleInv, pc = "perform", NEW o \in PointerOptions,
                      curl[o] # 0
               PROVE  <<o, curl[o]>> \in live
    BY DEF NoDanglingOption
  <2>1. caller \in Callers /\ curl = OptionsOf(caller, request)
        /\ live = Allocated(caller, request)
    BY DEF HandleInv
  <2>2. /\ curl.httppost = IF caller = "post_form" THEN request ELSE 0
        /\ curl.httpheader = IF caller = "send_gtasks_data" THEN request ELSE 0
        /\ curl.writedata = request
    BY <2>1, OptionsOfCaller
  <2> QED BY <2>1, <2>2 DEF PointerOptions, Callers, Allocated
<1> QED BY <1>1, HandleInvInit, HandleInvStep, PTL DEF Spec

\* Whatever requests came before it, each transfer is the one its caller set
\* up: method, form, headers and buffer are its own.
THEOREM RequestsIndependent == Spec => []RequestAsCalled
<1>1. HandleInv => RequestAsCalled
  <2> SUFFICES ASSUME HandleInv, pc = "perform" PROVE RequestAsCalled
    BY DEF RequestAsCalled
  <2>1. caller \in Callers /\ curl = OptionsOf(caller, request)
    BY DEF HandleInv
  <2>2. "post" \notin ForceIpv4 /\ "customrequest" \notin ForceIpv4
    BY DEF ForceIpv4
  <2> QED BY <2>1, <2>2, OptionsOfCaller DEF RequestAsCalled, Callers
<1> QED BY <1>1, HandleInvInit, HandleInvStep, PTL DEF Spec

\* "ipv4 only" reaches every transfer although each reset drops it.
THEOREM Ipv4OnlyReachesAll == Spec => []Ipv4OnlyHonoured
<1>1. HandleInv => Ipv4OnlyHonoured
  <2> SUFFICES ASSUME HandleInv, pc = "perform", ipv4_only
               PROVE  "ipresolve_v4" \in curl.flags
    BY DEF Ipv4OnlyHonoured
  <2>1. "ipresolve_v4" \in ForceIpv4
    BY DEF ForceIpv4
  <2>2. caller \in Callers /\ curl = OptionsOf(caller, request)
    BY DEF HandleInv
  <2> QED BY <2>1, <2>2, OptionsOfCaller
<1> QED BY <1>1, HandleInvInit, HandleInvStep, PTL DEF Spec
=============================================================================
