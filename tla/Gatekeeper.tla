----------------------------- MODULE Gatekeeper -----------------------------
(***************************************************************************)
(* Tokens for file transfers, and the gatekeeper (concent_api/gatekeeper), *)
(* which nginx asks about each request to the storage cluster.  It keeps   *)
(* no state: everything it looks at is in the request.                     *)
(*                                                                         *)
(* A path stands for itself: the paths of the source and of the result of  *)
(* a subtask differ.                                                       *)
(***************************************************************************)
EXTENDS Integers, FiniteSets

Client == {"provider", "requestor", "concent"}
Operation == {"upload", "download"}
Path == {"source", "result"}
Category(path) == IF path = "source" THEN "resources" ELSE "results"

FileInfo == [path : Path, category : {"resources", "results"}, size : Nat]

Token == [client : Client, operation : Operation, files : SUBSET FileInfo, expires : Int]

CreateFileInfo(path, size) == [path |-> path, category |-> Category(path), size |-> size]

\* _create_file_transfer_token(): files without a size are left out.
CreateFileTransferToken(client, operation, sizes, expires) ==
  [client    |-> client,
   operation |-> operation,
   files     |-> {CreateFileInfo(path, sizes[path]) : path \in {p \in DOMAIN sizes : sizes[p] > 0}},
   expires   |-> expires]

\* validate_file_transfer_token(); the checks of types and formats are left out.
ValidateFileTransferToken(token) ==
  /\ \A file \in token.files : file.size >= 0
  /\ \A a, b \in token.files : a # b => a.path # b.path /\ a.category # b.category

-----------------------------------------------------------------------------
Methods(operation) == IF operation = "upload" THEN {"POST"} ELSE {"GET", "HEAD"}

\* What a request has in its headers besides a token and a file: the Content-Type ("octets"
\* for anything but a form), whether X-Golem-Messages is missing or supported, the form of
\* Authorization, and the client whose key has signed Concent-Auth.
Header ==
  [content       : {"none", "form", "octets"},
   supported     : BOOLEAN,
   authorization : {"missing", "no token", "other scheme", "not base64", "not a message", "Golem"},
   signed        : Client \union {"nobody"}]

Proper(client, operation) ==
  [content       |-> IF operation = "upload" THEN "octets" ELSE "none",
   supported     |-> TRUE,
   authorization |-> "Golem",
   signed        |-> client]

Request == [view : Operation, method : {"POST", "GET", "HEAD"}, header : Header,
            token : Token, path : Path]

\* The views upload() and download(), up to parse_headers().
IsViewable(request) ==
  /\ request.method \in Methods(request.view)
  /\ request.header.supported
  /\ IF request.view = "upload"
       THEN request.header.content = "octets"
       ELSE request.header.content = "none"

FitsOperation(request) == request.method \in Methods(request.token.operation)

\* Concent-Auth must be signed with the key of the client that the token names.
FitsClient(request) == request.header.signed = request.token.client

IsUnexpired(token, time) == time <= token.expires

\* parse_headers(); each condition has an error code of its own, and a request that fails
\* one is answered with HTTP 401.
ParseHeaders(request, time) ==
  /\ request.header.authorization = "Golem"
  /\ FitsClient(request)
  /\ IsUnexpired(request.token, time)
  /\ ValidateFileTransferToken(request.token)
  /\ FitsOperation(request)
  /\ Cardinality({file \in request.token.files : file.path = request.path}) = 1

IsGranted(request, time) == IsViewable(request) /\ ParseHeaders(request, time)

\* What a client sends that does everything right.
ProperRequest(client, operation, token, path) ==
  [view   |-> operation,
   method |-> IF operation = "upload" THEN "POST" ELSE "GET",
   header |-> Proper(client, operation),
   token  |-> token,
   path   |-> path]
=============================================================================
