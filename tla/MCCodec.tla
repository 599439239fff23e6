------------------------------- MODULE MCCodec -------------------------------
(* executemany on rows of one short column, or one conversion.  A frame     *)
(* carries three bytes, and its number counts to two, so that statements    *)
(* take many frames and fill the last one exactly; a batch ends after one   *)
(* row or two.                                                              *)
EXTENDS Statements, Conversions

MCSeconds == {-3020400, -3016800, -90061, -5400, -3600, -1, 0, 1, 59, 60, 3599, 3600,
              86399, 86400, 90061, 3020399, 3020400}
MCMicros == {0, 1, 500000, 120000, 50}
MCLengths == {NULL, 0, 1, 250, 251, 255, 65535, 65536, 16777215, 16777216}

NoStatements ==
    /\ backslashes = TRUE /\ given = <<>> /\ args = <<>> /\ sql = <<>> /\ stream = <<>>
    /\ stored = <<>> /\ rows = None /\ rownumber = 0 /\ got = <<>>

NoConversion == value = Nothing /\ text = Nothing /\ back = Nothing

CodecInit ==
    \/ StatementInit /\ NoConversion
    \/ NoStatements /\ ConversionInit

CodecNext ==
    \/ given # <<>> /\ StatementNext /\ UNCHANGED conversionVars
    \/ ConversionNext /\ UNCHANGED statementVars

CodecSpec == CodecInit /\ [][CodecNext]_<<statementVars, conversionVars>>
==============================================================================
