---------------------------- MODULE JsonLibrary ----------------------------
(***************************************************************************)
(* The four parts of libs/parson.c that keep state, each in a behaviour of *)
(* its own: the table of an object, the parser, the values a caller        *)
(* builds, and strings as bytes. The values of the second and third part   *)
(* are built with the operators of the first.                              *)
(***************************************************************************)
EXTENDS JsonParse, JsonDocument, JsonString

VARIABLE part   \* the one that runs

lvars == <<part, object, pvars, dvars, pieces>>

LibraryInit ==
    /\ part \in {"table", "parser", "document", "strings"}
    /\ Init /\ ParseInit /\ BuildInit /\ StringInit

LibraryNext ==
    /\ UNCHANGED part
    /\ \/ part = "table"    /\ UNCHANGED <<pvars, dvars, pieces>>  /\ Next
       \/ part = "parser"   /\ UNCHANGED <<object, dvars, pieces>> /\ ParseNext
       \/ part = "document" /\ UNCHANGED <<object, pvars, pieces>> /\ BuildNext
       \/ part = "strings"  /\ UNCHANGED <<object, pvars, dvars>>  /\ StringNext

LibrarySpec == LibraryInit /\ [][LibraryNext]_lvars
=============================================================================
