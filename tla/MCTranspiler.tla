---------------------------- MODULE MCTranspiler ----------------------------
\* Instances of Transpiler: queries in every place a query can stand in, read in one
\* dialect and written in another.
EXTENDS Transpiler

\* The words of a text.
RECURSIVE Tokens(_)
Tokens(text) ==
    LET blanks == {i \in 1..Len(text) : SubSeq(text, i, i) = " "}
        first == CHOOSE i \in blanks : \A j \in blanks : i <= j
    IN IF blanks = {} THEN <<text>>
       ELSE <<SubSeq(text, 1, first - 1)>> \o Tokens(SubSeq(text, first + 1, Len(text)))
Request(text, from, to) == [text |-> Tokens(text), from |-> from, to |-> to]
Requested(texts, pairs) == {Request(texts[i], p[1], p[2]) : i \in DOMAIN texts, p \in pairs}

\* The places of a query.
Places(q) ==
    << q, "SELECT a FROM ( " \o q \o " ) AS d", "WITH d AS ( " \o q \o " ) SELECT a FROM d",
       "SELECT a FROM o WHERE a IN ( " \o q \o " )", "SELECT a FROM o WHERE NOT EXISTS ( " \o q \o " )",
       "SELECT ( " \o q \o " ) AS x FROM o", "SELECT a FROM o JOIN ( " \o q \o " ) AS d ON o . a = d . a",
       "SELECT a FROM o GROUP BY a HAVING a = ( " \o q \o " )", q \o " UNION ALL " \o q,
       "INSERT INTO s " \o q, "CREATE TABLE s AS " \o q, "CREATE VIEW v AS " \o q, "EXPLAIN " \o q >>
\* And those that the walk over nested blocks forgets.
ForgottenPlaces(q) ==
    LET value == "( " \o q \o " )"  source == "( " \o q \o " ) AS d"
        matched == "MERGE INTO s USING o ON s . a = o . a WHEN MATCHED THEN UPDATE SET a = "
        unmatched == "MERGE INTO s USING o ON s . a = o . a WHEN NOT MATCHED THEN INSERT ( a ) VALUES ( "
    IN << "DELETE FROM s WHERE a IN " \o value, "DELETE FROM s USING " \o source \o " WHERE s . a = d . a",
          "UPDATE s SET a = " \o value, "UPDATE s SET a = 1 FROM " \o source, "UPDATE s SET a = 1 WHERE a IN " \o value,
          "MERGE INTO s USING " \o source \o " ON s . a = d . a WHEN MATCHED THEN DELETE",
          matched \o value, unmatched \o value \o " )", "INSERT INTO s VALUES ( " \o value \o " )",
          "INSERT INTO s ( a ) VALUES ( 1 ) ON CONFLICT ( a ) DO UPDATE SET a = " \o value >>
InLimit(q) == "SELECT a FROM o LIMIT ( " \o q \o " )"
InWindow(q) == "SELECT SUM ( a ) OVER ( PARTITION BY ( " \o q \o " ) ) FROM o"
InReturning(q) == "DELETE FROM s RETURNING ( " \o q \o " ) AS x"
InEach(place(_), qs) == [i \in DOMAIN qs |-> place(qs[i])]
EveryPlace(qs) == FlattenSeq(InEach(Places, qs))

BlockTexts ==
    << "SELECT a FROM t ORDER BY a LIMIT 2", "SELECT a FROM t ORDER BY a", "SELECT a FROM t LIMIT 2 OFFSET 1",
       "SELECT COUNT ( a ) FILTER ( WHERE b > 1 ) , a / b FROM t ORDER BY b FETCH FIRST 2 ROWS ONLY",
       "SELECT MAX ( b ) FROM t WHERE t . a = o . a GROUP BY o . a", "SELECT MAX ( b ) FROM t WHERE t . b > o . a GROUP BY o . a" >>
TemporalTexts == << "SELECT a FROM t FOR SYSTEM_TIME AS OF 's'", "SELECT a FROM t FOR SYSTEM_TIME FROM 's' TO 'u'" >>
TopTexts == << "SELECT TOP 2 a FROM t ORDER BY a", "SELECT a FROM t ORDER BY a OFFSET 1 ROWS FETCH NEXT 2 ROWS ONLY" >>
ExprTexts ==
    << "SELECT a + INTERVAL '1' DAY , NOW ( ) , CAST ( a AS TEXT ) FROM t WHERE a / b % 2 ILIKE 's' OR a || b || c = 's'",
       "SELECT ISNULL ( a , b ) , LEN ( a ) FROM t WHERE NOT a ILIKE 's' ; SELECT SUBSTRING ( a , 1 , 2 ) , TO_CHAR ( a , 'YYYY-MM-DD' ) FROM t" >>

FromPostgres == {<<"postgres", d>> : d \in {"tsql", "oracle"}}
FromTSql == {<<"tsql", d>> : d \in {"oracle", "mysql", "bigquery"}}
Translated ==
    Requested(EveryPlace(BlockTexts), FromPostgres) \cup Requested(EveryPlace(TemporalTexts), FromTSql) \cup
    Requested(FlattenSeq(InEach(ForgottenPlaces, SubSeq(BlockTexts, 1, 4))), FromPostgres) \cup
    Requested(FlattenSeq(InEach(ForgottenPlaces, TemporalTexts)), FromTSql) \cup
    Requested(InEach(InLimit, BlockTexts) \o InEach(InWindow, BlockTexts), FromPostgres) \cup
    Requested(InEach(InReturning, BlockTexts), {<<"postgres", "oracle">>}) \cup
    Requested(InEach(InLimit, TemporalTexts) \o InEach(InReturning, TemporalTexts), FromTSql) \cup
    Requested(TopTexts, FromTSql) \cup Requested(ExprTexts, FromPostgres \cup {<<"postgres", "mysql">>, <<"postgres", "sqlite">>})

----------------------------------------------------------------------------
\* Expressions that need their parentheses, and those that do not.
Operators == <<"OR", "=", "+", "*", "|", "&", "<<", "-">>
Nestings(x, y) ==
    "SELECT a " \o x \o " b " \o y \o " c , ( a " \o x \o " b ) " \o y \o " c , a " \o x \o " ( b " \o y \o " c )"
GridTexts == [n \in 1..64 |-> Nestings(Operators[((n - 1) % 8) + 1], Operators[((n - 1) \div 8) + 1])]
StatementTexts ==
    << "SELECT DISTINCT a , b AS c FROM t AS x LEFT JOIN u ON x . a = u . a WHERE NOT a IS NULL AND b NOT IN ( 1 , 2 ) ORDER BY a DESC NULLS LAST LIMIT 1 OFFSET 2",
       "SELECT CASE a WHEN 1 THEN 's' ELSE b END , COUNT ( DISTINCT a ) , EXTRACT ( YEAR FROM a ) FROM t GROUP BY ROLLUP ( a , b ) HAVING COUNT ( * ) > 1",
       "SELECT SUM ( a ) OVER ( PARTITION BY b ORDER BY c ROWS BETWEEN UNBOUNDED PRECEDING AND CURRENT ROW ) FROM t",
       "WITH RECURSIVE c ( a ) AS ( SELECT 1 UNION ALL SELECT a FROM c ) SELECT a FROM c WHERE a BETWEEN 1 AND 2",
       "SELECT a FROM t UNION SELECT b FROM u EXCEPT SELECT c FROM v ORDER BY a",
       "INSERT INTO t ( a , b ) VALUES ( 1 , 2 ) , ( 1 , 2 ) ON CONFLICT ( a ) DO UPDATE SET b = 2 RETURNING a",
       "UPDATE t SET a = 1 , b = 2 FROM u WHERE t . a = u . a RETURNING a", "DELETE FROM t USING u WHERE t . a = u . a",
       "MERGE INTO t USING u ON t . a = u . a WHEN MATCHED AND u . b = 1 THEN UPDATE SET a = 1 WHEN NOT MATCHED THEN INSERT ( a ) VALUES ( 1 )",
       "CREATE TABLE t ( a INT NOT NULL , b VARCHAR DEFAULT 1 , PRIMARY KEY ( a ) , FOREIGN KEY ( a ) REFERENCES u ( b ) ON DELETE SET NULL )",
       "CREATE TABLE t AS SELECT a FROM u WITH DATA", "CREATE OR REPLACE VIEW v AS SELECT a FROM u", "DROP TABLE IF EXISTS t CASCADE",
       "ALTER TABLE t ADD COLUMN a INT , DROP COLUMN b , RENAME COLUMN a TO b",
       "TRUNCATE TABLE t ; BEGIN ; ROLLBACK TO SAVEPOINT s ; USE d ; EXPLAIN SELECT a", "COMMIT ; SET x = 1 ; SHOW s ; GRANT a ON t TO u" >>
RoundTrips ==
    Requested(GridTexts, {<<"mysql", "mysql">>, <<"sqlite", "mysql">>, <<"mysql", "sqlite">>, <<"postgres", "sqlite">>}) \cup
    Requested(StatementTexts, {<<"postgres", "postgres">>})
\* One block in each of the places that are forgotten.
MCForgotten == Requested(ForgottenPlaces(BlockTexts[1]), FromPostgres)
MCRequests == Translated \cup RoundTrips
\* One set operation with an order, for T-SQL.
MCSetOrder == {Request("SELECT a FROM t UNION SELECT b FROM u ORDER BY a", "postgres", "tsql")}
=============================================================================
