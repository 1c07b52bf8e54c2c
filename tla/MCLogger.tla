------------------------------ MODULE MCLogger ------------------------------
(* A small instance of Logger: parameters of every type, truthy and falsy.    *)
EXTENDS Logger, TLC

Small(type, truthy) == Parameter(type, truthy, "fits")

MCOwnContexts == {UnknownContext, Small("string", TRUE)}

MCEnvLevels == {"LOG", "FATAL", Unknown}

MCParams ==
  {Small("string", TRUE), Small("string", FALSE), Small("ILog", TRUE), Small("other", FALSE),
   Parameter("ILog", TRUE, "exceeds"), Parameter("other", TRUE, "throws")}
=============================================================================
