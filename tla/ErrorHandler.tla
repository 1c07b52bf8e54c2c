---------------------------- MODULE ErrorHandler ---------------------------
(***************************************************************************)
(* Packages/ErrorHandler: how the global exception filter turns whatever a  *)
(* handler throws into an HTTP status.  Exception subclasses of the package *)
(* carry their own status; everything else becomes UnknownException, Nest's *)
(* HttpException included.  The filter logs first, and a log that throws    *)
(* replaces the answer.                                                     *)
(***************************************************************************)
EXTENDS Naturals

OwnExceptions == {"ValidationException", "AuthNException", "AuthZException"}

OtherErrors == {"HttpException", "Error", "QueryFailedError", "JsonWebTokenError"}

Thrown == OwnExceptions \cup OtherErrors

(* httpResponse.status of the exceptions that have one of their own. *)
OwnStatus(exception) ==
  CASE exception = "ValidationException" -> 400
    [] exception = "AuthNException" -> 401
    [] exception = "AuthZException" -> 403

UnknownExceptionStatus == 500

(* The "log" flag: set by AuthNException and UnknownException only. *)
IsLogged(exception) == exception \notin {"ValidationException", "AuthZException"}

(* handleException followed by the reply of GlobalExceptionFilter.catch. *)
HandleException(exception, logWorks) ==
  IF exception \in OwnExceptions /\ (IsLogged(exception) => logWorks)
  THEN OwnStatus(exception)
  ELSE UnknownExceptionStatus
=============================================================================
