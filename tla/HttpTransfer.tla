---------------------------- MODULE HttpTransfer ----------------------------
(***************************************************************************)
(* The one CURL easy handle of gtasks2ical and the three functions that    *)
(* send a request with it: read_url (oauth2-google.c), post_form           *)
(* (postform.c) and send_gtasks_data (gtasks.c), together with the write   *)
(* callback receive_curl_response that collects the reply.                 *)
(*                                                                         *)
(* The handle outlives every request: main creates it once and each        *)
(* function sets options on it that point into memory of its own (the form *)
(* being posted, the list of headers, the write buffer on its stack),      *)
(* performs the transfer, frees what it allocated and resets the handle.   *)
(* An option that survives points into freed memory, or changes the method *)
(* of the next request.                                                    *)
(*                                                                         *)
(* Abstractions: a body is a sequence of bytes and the memory of the       *)
(* buffer is the sequence of the bytes written to it, <<>> being a NULL    *)
(* data pointer.  The memory of request n is named by n.  URLs and the     *)
(* options that every function sets to the same value are left out, and so *)
(* are the cookies, which libcurl keeps across a reset.                    *)
(***************************************************************************)
EXTENDS Integers, Sequences

CONSTANTS
  Bytes,         \* the bytes a server can send
  Nul,           \* the terminator receive_curl_response writes
  MaxRequests,   \* bound: requests made with the handle
  MaxBody        \* bound: bytes of one reply

ASSUME BoundsAssumption == MaxRequests \in Nat /\ MaxBody \in Nat

VARIABLES
  ipv4_only,      \* global_config.ipv4_only, fixed before the first request
  curl,           \* the options set on the handle
  live,           \* the memory the options may point to: <<option, request>>
  caller,         \* the function using the handle, or "none"
  request,        \* the number of requests made so far
  html_response,  \* the write buffer of the current request
  delivered,      \* what the server sent for this request (history)
  errcode,        \* what curl_easy_perform returned
  pc

vars == <<ipv4_only, curl, live, caller, request, html_response, delivered,
          errcode, pc>>

Callers == {"read_url", "post_form", "send_gtasks_data"}

\* The options that are switched on: POST, CUSTOMREQUEST and IPRESOLVE.
Flags == {"post", "customrequest", "ipresolve_v4"}

\* The options that hold an address.  0 is NULL, n the memory of request n.
PointerOptions == {"httppost", "httpheader", "writedata"}

(***************************************************************************)
(* The options of a fresh handle, which is also what curl_easy_reset       *)
(* leaves behind; the cookies survive it.                                  *)
(***************************************************************************)
CurlDefaults == [flags      |-> {},
                 httppost   |-> 0,
                 httpheader |-> 0,
                 writedata  |-> 0]

(***************************************************************************)
(* The options each function sets before it calls curl_easy_perform.       *)
(***************************************************************************)
ForceIpv4 == IF ipv4_only THEN {"ipresolve_v4"} ELSE {}

SetReceiver(c, n) ==
  [c EXCEPT !.writedata = n, !.flags = @ \cup ForceIpv4]

OptionsOfReadUrl(c, n) == SetReceiver(c, n)

\* Every caller of post_form passes NULL for the extra headers.
OptionsOfPostForm(c, n) ==
  [SetReceiver(c, n) EXCEPT !.flags = @ \cup {"post"},
                            !.httppost = n,
                            !.httpheader = 0]

\* Mutant: the Tasks API request does not force IPv4.
OptionsOfSendIgnoringIpv4(c, n) ==
  [c EXCEPT !.writedata = n, !.flags = @ \cup {"customrequest"},
            !.httpheader = n]

OptionsOfSendGtasksData(c, n) ==
  [SetReceiver(c, n) EXCEPT !.flags = @ \cup {"customrequest"},
                            !.httpheader = n]

\* The memory request n of function f owns while its transfer runs.
Allocated(f, n) ==
  CASE f = "read_url"         -> {<<"writedata", n>>}
    [] f = "post_form"        -> {<<"writedata", n>>, <<"httppost", n>>}
    [] f = "send_gtasks_data" -> {<<"writedata", n>>, <<"httpheader", n>>}

(***************************************************************************)
(* The write callback: grow the buffer to what it holds, the new bytes and *)
(* one terminator, copy the bytes over the old terminator and terminate.   *)
(***************************************************************************)
EmptyBuffer == [data |-> <<>>, size |-> 0]

\* Mutant: the terminator is counted as part of the data.
ReceiveCountingTerminator(buffer, chunk) ==
  [data |-> SubSeq(buffer.data, 1, buffer.size) \o chunk \o <<Nul>>,
   size |-> buffer.size + Len(chunk) + 1]

receive_curl_response(buffer, chunk) ==
  [data |-> SubSeq(buffer.data, 1, buffer.size) \o chunk \o <<Nul>>,
   size |-> buffer.size + Len(chunk)]

-----------------------------------------------------------------------------
(* The operations. *)

Init ==
  /\ ipv4_only \in BOOLEAN
  /\ curl = CurlDefaults
  /\ live = {}
  /\ caller = "none"
  /\ request = 0
  /\ html_response = EmptyBuffer
  /\ delivered = <<>>
  /\ errcode = "ok"
  /\ pc = "idle"

\* What the three functions have in common up to curl_easy_perform.
Begin(f, options) ==
  /\ pc = "idle"
  /\ request < MaxRequests
  /\ request' = request + 1
  /\ caller' = f
  /\ curl' = options
  /\ live' = live \cup Allocated(f, request + 1)
  /\ html_response' = EmptyBuffer
  /\ delivered' = <<>>
  /\ pc' = "perform"
  /\ UNCHANGED <<ipv4_only, errcode>>

read_url == Begin("read_url", OptionsOfReadUrl(curl, request + 1))

post_form == Begin("post_form", OptionsOfPostForm(curl, request + 1))

send_gtasks_data ==
  Begin("send_gtasks_data", OptionsOfSendGtasksData(curl, request + 1))

(***************************************************************************)
(* libcurl hands one more piece of the body to the callback; an empty      *)
(* piece when the body is empty.                                           *)
(***************************************************************************)
Deliver(chunk) ==
  /\ pc = "perform"
  /\ Len(delivered) + Len(chunk) <= MaxBody
  /\ Len(chunk) = 0 => html_response.data = <<>>
  /\ delivered' = delivered \o chunk
  /\ html_response' = receive_curl_response(html_response, chunk)
  /\ UNCHANGED <<ipv4_only, curl, live, caller, request, errcode, pc>>

\* The transfer ends: completely, or cut short anywhere by an error.
EndTransfer(code) ==
  /\ pc = "perform"
  /\ errcode' = code
  /\ pc' = "performed"
  /\ UNCHANGED <<ipv4_only, curl, live, caller, request, html_response,
                 delivered>>

\* Mutant: the handle is not reset after the transfer.
ReturnWithoutReset ==
  /\ pc = "performed"
  /\ live' = live \ Allocated(caller, request)
  /\ pc' = "idle"
  /\ UNCHANGED <<ipv4_only, curl, caller, request, html_response, delivered,
                 errcode>>

\* Clean up, reset the handle and hand html_response.data to the
\* caller, whatever errcode says.
Return ==
  /\ pc = "performed"
  /\ live' = live \ Allocated(caller, request)
  /\ curl' = CurlDefaults
  /\ pc' = "idle"
  /\ UNCHANGED <<ipv4_only, caller, request, html_response, delivered, errcode>>

\* main has made its last request; the process goes on without the handle.
Finished ==
  /\ pc = "idle"
  /\ request = MaxRequests
  /\ UNCHANGED vars

Next ==
  \/ read_url
  \/ post_form
  \/ send_gtasks_data
  \/ \E n \in 0 .. MaxBody : \E chunk \in [1 .. n -> Bytes] : Deliver(chunk)
  \/ \E code \in {"ok", "error"} : EndTransfer(code)
  \/ Return
  \/ Finished

Spec == Init /\ [][Next]_vars

-----------------------------------------------------------------------------
(* Properties. *)

\* The buffer never claims more data than the reply has, and every option is
\* a flag or the memory of a request already made.
TypeOK ==
  /\ ipv4_only \in BOOLEAN
  /\ curl \in [flags : SUBSET Flags, httppost : 0 .. request,
               httpheader : 0 .. request, writedata : 0 .. request]
  /\ live \subseteq PointerOptions \X (1 .. request)
  /\ caller \in Callers \cup {"none"}
  /\ request \in 0 .. MaxRequests
  /\ html_response.data \in Seq(Bytes \cup {Nul})
  /\ html_response.size \in 0 .. MaxBody
  /\ delivered \in Seq(Bytes)
  /\ errcode \in {"ok", "error"}
  /\ pc \in {"idle", "perform", "performed"}

\* While a transfer runs, libcurl follows no option into memory that an
\* earlier request has freed (post_form frees its form, send_gtasks_data its
\* header list, and every write buffer dies with its stack frame).
NoDanglingOption ==
  pc = "perform" =>
    \A o \in PointerOptions : curl[o] # 0 => <<o, curl[o]>> \in live

\* Every transfer is the one its caller asked for, whatever was sent before
\* it: read_url is a plain GET without form or headers, post_form posts its
\* own form and only it, the Tasks API request is a custom GET that carries
\* its own authorization header.
RequestAsCalled ==
  pc = "perform" =>
    /\ "post" \in curl.flags <=> caller = "post_form"
    /\ "customrequest" \in curl.flags <=> caller = "send_gtasks_data"
    /\ curl.httppost = (IF caller = "post_form" THEN request ELSE 0)
    /\ curl.httpheader = (IF caller = "send_gtasks_data" THEN request ELSE 0)
    /\ curl.writedata = request

\* With "ipv4 only" configured no transfer may try IPv6, although each reset
\* drops the option.
Ipv4OnlyHonoured ==
  pc = "perform" /\ ipv4_only => "ipresolve_v4" \in curl.flags

\* However the body was cut into callbacks, the buffer holds exactly the
\* bytes delivered and one terminator right behind them; it is NULL only when
\* nothing was delivered.
BufferIsBody ==
  /\ html_response.size = Len(delivered)
  /\ html_response.data # <<>> => html_response.data = delivered \o <<Nul>>
  /\ html_response.data = <<>> => delivered = <<>>
=============================================================================
