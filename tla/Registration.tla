----------------------------- MODULE Registration -----------------------------
(***************************************************************************)
(* What the client checks of the form a person fills in to sign up          *)
(* (Person::input_* and check_* in Client/Headers/Person.cpp).  A check     *)
(* that fails asks for the same field again, so a form is sent when all     *)
(* its fields pass.                                                          *)
(*                                                                          *)
(* A character is its code, a string a sequence of codes; a date is a       *)
(* record of three numbers.                                                 *)
(***************************************************************************)
EXTENDS Integers, Sequences, FiniteSets

(* Codes of the characters that the checks name. *)
Space == 32
Hash  == 35
Star  == 42
Dash  == 45
At    == 64
Digit(c)  == 48 <= c /\ c <= 57
Letter(c) == (65 <= c /\ c <= 90) \/ (97 <= c /\ c <= 122)
SexCodes  == {70, 77, 79}                               \* F, M, O

Chars(s) == {s[i] : i \in DOMAIN s}

Date == [day : Int, month : Int, year : Int]

-----------------------------------------------------------------------------
check_name(s) ==
    \A c \in Chars(s) :
        ~ ((c < 65 /\ c # Space) \/ (c > 90 /\ c < 97) \/ c > 122)

check_age(age) == ~ (age < 10 \/ age > 99)

check_sex(c) == c \in SexCodes

LongMonths  == {1, 3, 5, 7, 8, 10, 12}
ShortMonths == {4, 6, 9, 11}

(* "Assuming no lunar year": February has 28 days. *)
LastDay(month) ==
    IF month \in LongMonths THEN 31 ELSE IF month \in ShortMonths THEN 30 ELSE 28

check_DOB(d) ==
    /\ ~ (d.year > 2011 \/ d.year < 1921)
    /\ ~ (d.month > 12 \/ d.month < 1)
    /\ ~ (d.day < 1 \/ d.day > LastDay(d.month))

(* Mutant of Age: the day is not looked at in the month of the birthday.     *)
AgeByMonth(d, today) ==
    today.year - d.year - (IF d.month > today.month THEN 1 ELSE 0)

(* The age that consistency() works out for today. *)
Age(d, today) ==
    IF d.month < today.month THEN today.year - d.year
    ELSE IF d.month > today.month \/ d.day > today.day THEN today.year - d.year - 1
    ELSE today.year - d.year

consistency(d, age, today) == Age(d, today) = age

input_DOB(d, age, today) == check_DOB(d) /\ consistency(d, age, today)

check_CNIC(s) ==
    /\ Len(s) = 15
    /\ \A c \in Chars(s) : ~ ((c < 48 /\ c # Dash) \/ c > 57)
    /\ \A i \in DOMAIN s : IF i \in {6, 14} THEN s[i] = Dash ELSE s[i] # Dash

check_email(s) == \E c \in Chars(s) : c = At

check_phone_num(s) ==
    \A c \in Chars(s) : ~ ((c < 48 /\ c \notin {Dash, Star, Hash}) \/ c > 57)

check_password(password, confirm) == password = confirm

(* The form as it is typed in; the password twice. *)
Form == [name : Seq(Int), age : Int, sex : Int, DOB : Date, CNIC : Seq(Int),
         email : Seq(Int), phone_num : Seq(Int), password : Seq(Int), confirm : Seq(Int)]

Accepts(f, today) ==
    /\ check_password(f.password, f.confirm) /\ check_name(f.name)
    /\ check_age(f.age) /\ check_sex(f.sex) /\ input_DOB(f.DOB, f.age, today)
    /\ check_CNIC(f.CNIC) /\ check_email(f.email) /\ check_phone_num(f.phone_num)

-----------------------------------------------------------------------------
(* What the checks are meant to find out. *)

NotAfter(d, e) ==
    \/ d.year < e.year
    \/ d.year = e.year /\ d.month < e.month
    \/ d.year = e.year /\ d.month = e.month /\ d.day <= e.day

(* A person's age: the birthdays since the day of birth. *)
Birthdays(d, today) ==
    {y \in d.year + 1 .. today.year : NotAfter([d EXCEPT !.year = y], today)}
TrueAge(d, today) == Cardinality(Birthdays(d, today))

Leap(y) == y % 4 = 0 /\ (y % 100 # 0 \/ y % 400 = 0)
DaysIn(month, year) ==
    IF month = 2 THEN IF Leap(year) THEN 29 ELSE 28
    ELSE IF month \in {4, 6, 9, 11} THEN 30 ELSE 31
IsDate(d) == d.month \in 1 .. 12 /\ d.day \in 1 .. DaysIn(d.month, d.year)

(* ddddd-ddddddd-d *)
IsCNIC(s) ==
    /\ s \in Seq(Int) /\ Len(s) = 15
    /\ \A i \in 1 .. 15 : IF i \in {6, 14} THEN s[i] = Dash ELSE Digit(s[i])
=============================================================================
