----------------------------- MODULE MCUploads ------------------------------
(***************************************************************************)
(* One request with forms of up to two parts: a second artifacts file is   *)
(* refused, a second tracked file is not.  There are error pages for some  *)
(* of the statuses workhorse itself answers with.                          *)
(***************************************************************************)
EXTENDS Uploads

(* Directories without an entry, with one after and before their content,   *)
(* and a path that is there twice.                                          *)
MCZips == {<<>>, <<File(<<2, 1, 1>>), File(<<1>>)>>,
           <<File(<<1, 1>>), Dir(<<1>>), File(<<1, 1>>)>>,
           <<Dir(<<1>>), File(<<1, 2>>), File(<<1, 1>>)>>}

MCPages == {404, 500, 502}
=============================================================================
