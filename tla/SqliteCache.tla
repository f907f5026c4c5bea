---------------------------- MODULE SqliteCache ----------------------------
(***************************************************************************)
(* The v4 server's cache file (src/cache/sqlite_cache.py): a table of      *)
(* vectors, by the hash of the text and the model, and a table of bodies   *)
(* in Markdown, by message.  The third table, of the texts of attachments, *)
(* is never used.  Every call is one statement that commits by itself; a   *)
(* row is replaced, never removed, and nothing in it expires.              *)
(***************************************************************************)
EXTENDS Naturals, FiniteSets

CONSTANTS Texts,    (* subject and first 500 characters; its hash stands for it *)
          Models,   (* embedding models                                     *)
          Items,    (* messages: a larger number is a newer one             *)
          None

VARIABLES rows,     (* embedding_cache                                      *)
          bodies    (* body_format_cache, Markdown                          *)

(* A vector: the text it stands for and the model that computed it.  A row  *)
(* keeps its numbers in single precision, and the call that paid for it     *)
(* goes on with those of the provider: one vector here, which assumes that  *)
(* no two scores, nor a score and the threshold, are within that rounding.  *)
Vector == [of : Texts, by : Models]
NoVectors == [t \in Texts |-> None]

CacheInit ==
  /\ rows = [key \in Texts \X Models |-> None]
  /\ bodies = [i \in Items |-> None]

get_embedding(table, t, m) == table[<<t, m>>]
put_embeddings(found, m) ==
  [key \in Texts \X Models |->
     IF key[2] = m /\ found[key[1]] # None THEN found[key[1]] ELSE rows[key]]

(* import_legacy_embeddings_json: every entry of the file becomes a row of  *)
(* the model it is told, which computed it or did not.                      *)
import_legacy_embeddings_json(json, m) == put_embeddings(json, m)

get_body(i) == bodies[i]
put_body(i, body) == [bodies EXCEPT ![i] = body]
=============================================================================
