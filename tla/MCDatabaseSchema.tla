---- MODULE MCDatabaseSchema ----
EXTENDS DatabaseSchema
====
