------------------------------- MODULE SignalQr -------------------------------
(***************************************************************************)
(* The dialog that shows the code a phone scans to link itself             *)
(* (web/components/dashboard/signal-qr-modal.tsx), and the route that      *)
(* fetches the code (web/app/api/signal/qr).  Every opening asks for a new *)
(* code; closing and opening again leaves earlier requests on their way.   *)
(***************************************************************************)
EXTENDS Integers

CONSTANT MaxOpened  \* bound: times the dialog is opened

ASSUME SignalQrAssumption == MaxOpened \in Nat

VARIABLES
  isOpen,
  newest,   \* requestIdRef
  request,  \* each request: on its way, aborted, or over
  loading,  \* isQrLoading
  failure,  \* qrLoadError: the request that failed, 0 if none
  shown,    \* qrObjectUrl: the request whose code is shown
  urls      \* activeObjectUrlRef: the object URLs made and not revoked

qrVars == <<isOpen, newest, request, loading, failure, shown, urls>>

Requests == 1..MaxOpened

QrTypeOK ==
  /\ isOpen \in BOOLEAN /\ loading \in BOOLEAN
  /\ newest \in 0..MaxOpened
  /\ request \in [Requests -> {"none", "fetching", "reading", "aborted", "over"}]
  /\ failure \in 0..MaxOpened /\ shown \in 0..MaxOpened
  /\ urls \subseteq Requests

QrInit ==
  /\ isOpen = FALSE /\ newest = 0 /\ loading = FALSE
  /\ request = [r \in Requests |-> "none"]
  /\ failure = 0 /\ shown = 0 /\ urls = {}

-----------------------------------------------------------------------------
Live(r) == request[r] \in {"fetching", "reading"}

\* Mutation: earlier requests are left running.
Unaborted == request

(* abort() on the last controller.                                         *)
Aborted == [r \in Requests |-> IF r = newest /\ Live(r) THEN "aborted" ELSE request[r]]

(* openModal and the part of loadQrCode before its await.                  *)
OpenModal ==
  /\ ~isOpen
  /\ newest < MaxOpened
  /\ isOpen' = TRUE /\ loading' = TRUE
  /\ newest' = newest + 1
  /\ request' = [Aborted EXCEPT ![newest'] = "fetching"]
  /\ failure' = 0 /\ shown' = 0
  /\ UNCHANGED urls

CloseModal ==
  /\ isOpen
  /\ isOpen' = FALSE /\ loading' = FALSE
  /\ request' = Aborted
  /\ failure' = 0 /\ shown' = 0
  /\ urls' = {}
  /\ UNCHANGED newest

(* finally: only the newest request stops the spinner.                     *)
Over(r) ==
  /\ request' = [request EXCEPT ![r] = "over"]
  /\ loading' = (loading /\ r # newest)

(* The route answers 200 and the body is still to come.                    *)
Served(r) ==
  /\ request[r] = "fetching"
  /\ request' = [request EXCEPT ![r] = "reading"]
  /\ UNCHANGED <<isOpen, newest, loading, failure, shown, urls>>

(* The body is read; only the newest request's is shown.                   *)
ShowQr(r) ==
  /\ request[r] = "reading"
  /\ Over(r)
  /\ IF r = newest
     THEN shown' = r /\ urls' = {r}
     ELSE UNCHANGED <<shown, urls>>
  /\ UNCHANGED <<isOpen, newest, failure>>

(* 401, 502 or 500 (the route's catch and its 15 s limit), or no answer.   *)
QrFails(r) ==
  /\ Live(r)
  /\ Over(r)
  /\ failure' = r
  /\ UNCHANGED <<isOpen, newest, shown, urls>>

(* The fetch of an aborted request rejects; its error is swallowed.        *)
QrAborted(r) ==
  /\ request[r] = "aborted"
  /\ Over(r)
  /\ UNCHANGED <<isOpen, newest, failure, shown, urls>>

QrStep ==
  \/ OpenModal \/ CloseModal
  \/ \E r \in Requests : Served(r) \/ ShowQr(r) \/ QrFails(r) \/ QrAborted(r)

QrSpec == QrInit /\ [][QrStep]_qrVars

-----------------------------------------------------------------------------
(* The dialog shows the code or the error of the newest request and of no  *)
(* other, spins as long as that request is on its way, shows nothing once  *)
(* closed, and the code it shows is one whose object URL is still held     *)
(* (loadQrCode, closeModal).                                               *)
DialogIsOfNewest ==
  /\ QrTypeOK
  /\ shown \in {0, newest} /\ failure \in {0, newest}
  /\ ~isOpen => shown = 0 /\ failure = 0 /\ ~loading /\ urls = {}
  /\ isOpen => (loading = Live(newest)) /\ ~(shown # 0 /\ failure # 0)
  /\ shown # 0 => urls = {shown}
=============================================================================
