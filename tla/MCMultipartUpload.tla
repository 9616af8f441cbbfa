-------------------------- MODULE MCMultipartUpload -------------------------
(* MultipartUpload on small instances.                                     *)
EXTENDS MultipartUpload, PartSizes

(* A file of five bytes, cut as put_file() does when S3 wants parts of two *)
(* bytes at least and three of them at most: two full ones and a short one.*)
MCParts == PartCount(5, PartSizeFor(5, 1))

(* One PUT or a multipart upload, signed or not.                           *)
EveryCall == [single : BOOLEAN, sign : BOOLEAN]

(* The file may be cut by a part, rewritten in place or extended by one.   *)
AnyLength == {Parts - 1, Parts, Parts + 1}

(* The theorems of PartSizesProofs, for every size and part size there is  *)
(* below this Word.                                                        *)
ASSUME SmallWordParts ==
    \A size \in Words \ {0}, requested \in Words :
        LET ps == PartSizeFor(size, requested)
            n == PartCount(size, ps)
        IN  NoWrap(size, requested) =>
                /\ n \in 1 .. MaxParts /\ MinPartSize <= ps
                /\ \A i \in 0 .. n - 1 :
                       PartOffset(i, ps) + PartLength(i, size, ps)
                           = IF i = n - 1 THEN size ELSE PartOffset(i + 1, ps)
=============================================================================
