----------------------- MODULE MCPostgresqlAggregation -----------------------
(* The traffic of MCPostgresql, handed through the session collector.      *)
EXTENDS PostgresqlAggregation, MCPostgresql
====
