----------------------------- MODULE MCBlobCache ----------------------------
(* A small instance of BlobCache for TLC: two requests for one member's    *)
(* photo, two or three for one media blob, one for a chat's photo.         *)
EXTENDS BlobCache, TLC

CONSTANTS u1, u2, m1, m2, m3, c1, face, media, photo

MCKeyOf == [r \in Requests |->
    IF r \in Users THEN face ELSE IF r \in Media THEN media ELSE photo]

(* Any two kinds of request against each other.  A third request for the   *)
(* media blob is what finds it torn when two share its temporary file.     *)
MCTogether == {{u1, u2, m1, m2}, {u1, u2, c1}, {m1, m2, m3, c1}}

(* Every batch is unchanged when these change places.                      *)
Symmetry == Permutations({u1, u2}) \cup Permutations({m1, m2})
=============================================================================
