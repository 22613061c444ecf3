--------------------------- MODULE MCJsonLibrary ---------------------------
\* An instance of JsonLibrary for TLC.
EXTENDS JsonLibrary

CONSTANTS n1, n2, n3, n4, v1, v2, doc1, doc2, zero, little, one, bad

\* Two equal hashes, and with 8 cells one cluster of four that goes round the
\* end of the table, in which each name begins at, before or after the end.
MCHashOf == n1 :> 7 @@ n2 :> 7 @@ n3 :> 6 @@ n4 :> 8

MCPath == {<<n1>>, <<n2>>, <<n1, n2>>}

\* \u escapes at both ends of each length of UTF-8 and of each kind of
\* surrogate, one that is cut off and one that is no number; and short ones.
MCEscape ==
    <<92, 117, 48, 48, 55, 70>>   :> 127   @@ <<92, 117, 48, 48, 56, 48>>   :> 128   @@
    <<92, 117, 48, 55, 102, 102>> :> 2047  @@ <<92, 117, 48, 56, 48, 48>>   :> 2048  @@
    <<92, 117, 68, 55, 70, 70>>   :> 55295 @@ <<92, 117, 100, 56, 48, 48>>  :> 55296 @@
    <<92, 117, 68, 66, 70, 70>>   :> 56319 @@ <<92, 117, 68, 67, 48, 48>>   :> 56320 @@
    <<92, 117, 100, 102, 102, 102>> :> 57343 @@ <<92, 117, 69, 48, 48, 48>> :> 57344 @@
    <<92, 117, 70, 70, 70, 70>>   :> 65535 @@ <<92, 117, 68, 56>>           :> -1    @@
    <<92, 117, 49, 50, 71, 52>>   :> -1    @@ <<92, 120>>                   :> -1    @@
    <<92, 110>> :> 10 @@ <<92, 47>> :> 47  @@ <<92, 34>> :> 34

\* All but the last call, on which no later one depends.
View == <<part, object, pvars, held, marked, used, pieces>>

\* Numbers that are nearer to the one between them than to each other.
MCNumber == zero :> 0 @@ little :> 1 @@ one :> 2

\* Nothing tells zero and one apart but how far they are from other numbers.
Alikes == Permutations(Variable) \cup Permutations({zero, one})
=============================================================================
